---- MODULE Spec2Model ----
(***************************************************************************)
(* Typedown markdown editor: the synchronisation between a VS Code text    *)
(* document (the durable buffer) and the CKEditor model of a custom editor *)
(* webview, the conversion of pasted HTML tables, the keys that leave a    *)
(* code block and the two commands of the extension.                       *)
(*                                                                         *)
(* Webview side  : src/src/markdownEditorInitScript.js lines 1-569         *)
(* Extension side: src/src/markdownEditorInitScript.js lines 571-1257      *)
(*                 (class MarkdownEditorProvider)                          *)
(* Commands      : src/src/extension.ts                                    *)
(*                                                                         *)
(* A text is a sequence of one-character strings.  Handlers run to         *)
(* completion; the asynchronous boundaries are the two message channels,   *)
(* the settling of workspace.applyEdit and the 100 ms setTimeout.          *)
(***************************************************************************)
EXTENDS Integers, Sequences, FiniteSets, TLC

\* ------------------------------------------------------------------ bounds
MaxLen == 1          \* longest text typed in the editor or in the buffer
MaxQueue == 1        \* messages in transit per channel
MaxPending == 1      \* applyEdit promises not yet settled
MaxTimers == 1       \* setTimeout callbacks not yet run
MaxDocLen == 2       \* longest text where the webview is taken on its own
MaxEolLen == 3       \* longest text where the extension is taken on its own
MaxCellLen == 4      \* longest text of a table cell
MaxCells == 2        \* most cells of a table row
MaxRows == 2         \* most rows of a table section
MaxSections == 2     \* most sections (thead, tbody) of a table
MaxFragments == 3    \* most fragments (characters, table elements) of an HTML text
MaxMarkupLen == 2    \* most elements of a cell text that reads as markup
MaxVisible == 2      \* most text editors visible at once
MaxCodeLen == 5      \* most items (characters, line breaks) of a code block
MaxLongLen == 7      \* most items of a code block of one repeated character
MaxBlocks == 4       \* most blocks in the root and in a block quote

\* -------------------------------------------------------------- characters
CR == "\r"
LF == "\n"
EditorChars == {"a", LF}
BufferChars == {"a", CR, LF}

RECURSIVE SeqsUpTo(_, _)
SeqsUpTo(S, n) ==
    IF n = 0 THEN {<< >>}
    ELSE LET shorter == SeqsUpTo(S, n - 1)
         IN  shorter \cup {Append(s, c) : s \in {t \in shorter : Len(t) = n - 1}, c \in S}

EditorTexts == SeqsUpTo(EditorChars, MaxLen)
BufferTexts == SeqsUpTo(BufferChars, MaxLen)
\* Texts with any mix of \r\n, lone \r and lone \n.
EolTexts == SeqsUpTo(BufferChars, MaxEolLen)

\* ------------------------------------------------- String.prototype.replace
\* text.replace(/(?:\r\n|\r|\n)/g, eol): leftmost match first, \r\n before \r.
\* A replace whose pattern is /(?:\r|\n)/g: \r\n is taken as two line endings.
RECURSIVE replaceEol_crlfAsTwo(_, _)
replaceEol_crlfAsTwo(text, eol) ==
    IF text = << >> THEN << >>
    ELSE IF text[1] = CR \/ text[1] = LF
         THEN eol \o replaceEol_crlfAsTwo(Tail(text), eol)
    ELSE <<text[1]>> \o replaceEol_crlfAsTwo(Tail(text), eol)

RECURSIVE replaceEol(_, _)
replaceEol(text, eol) ==
    IF text = << >> THEN << >>
    ELSE IF Len(text) >= 2 /\ text[1] = CR /\ text[2] = LF
         THEN eol \o replaceEol(SubSeq(text, 3, Len(text)), eol)
    ELSE IF text[1] = CR \/ text[1] = LF
         THEN eol \o replaceEol(Tail(text), eol)
    ELSE <<text[1]>> \o replaceEol(Tail(text), eol)

\* --------------------------------------------------- the rich-text engine
\* The engine is an external collaborator (spec.md section 1): set-text,
\* get-text, selection query/set and element tree query.  The document root
\* is a sequence of top-level elements, one per line of the text; an element
\* is the sequence of its characters.
RECURSIVE splitLines(_)
splitLines(text) ==
    IF \A i \in 1..Len(text) : text[i] # LF THEN <<text>>
    ELSE LET k == CHOOSE i \in 1..Len(text) :
                     text[i] = LF /\ \A j \in 1..(i - 1) : text[j] # LF
         IN  <<SubSeq(text, 1, k - 1)>> \o splitLines(SubSeq(text, k + 1, Len(text)))

RECURSIVE joinLines(_)
joinLines(r) ==
    IF Len(r) = 0 THEN << >>
    ELSE IF Len(r) = 1 THEN r[1]
    ELSE r[1] \o <<LF>> \o joinLines(Tail(r))

\* A position is a path: <<k>> is offset k in the root, <<i, o>> is offset o
\* inside top-level element i (0-based, as the engine's paths are).
positionExists(p, r) ==
    IF Len(p) = 1 THEN p[1] <= Len(r)
    ELSE p[1] < Len(r) /\ p[2] <= Len(r[p[1] + 1])

rangeExists(range, r) == positionExists(range.start, r) /\ positionExists(range.end, r)

collapsed(p) == [start |-> p, end |-> p]

defaultRange == collapsed(<<0, 0>>)

\* writer.setSelection(element, 'after') for the top-level element at index i
afterElement(i) == collapsed(<<i + 1>>)

endOfDocument(r) == collapsed(<<Len(r) - 1, Len(r[Len(r)])>>)

EditorRoots == {splitLines(t) : t \in EditorTexts}

\* Where the webview is taken on its own: the texts the user types and the
\* extension posts, and the positions the user can put the cursor at.
DocTexts == SeqsUpTo(EditorChars, MaxDocLen)
DocRoots == {splitLines(t) : t \in DocTexts}
positionsIn(r) ==
    {p \in {<<i - 1, o>> : i \in 1..Len(r), o \in 0..MaxDocLen} : positionExists(p, r)}
before(p, q) == p[1] < q[1] \/ (p[1] = q[1] /\ p[2] <= q[2])
rangesIn(r) ==
    {range \in {[start |-> p, end |-> q] : p \in positionsIn(r), q \in positionsIn(r)} :
        before(range.start, range.end)}

NoText == <<"null">>

\* ------------------------------------------------------------ HTML tables
\* An HTML text is a sequence of characters, tags and entity-encoded tags,
\* each one element of the sequence.  The text '<table>' of an HTML source is
\* the tag; written with entities ('&lt;table&gt;') it is text that reads
\* '<table>' once decoded, and written with its ampersands encoded in turn
\* ('&amp;lt;table&amp;gt;') it is text that reads '&lt;table&gt;'.
TableOpen == "<table>"
TableOpenUpper == "<TABLE>"
TableClose == "</table>"
EntTableOpen == "&lt;table&gt;"
EntTableClose == "&lt;/table&gt;"
Ent2TableOpen == "&amp;lt;table&amp;gt;"
Ent2TableClose == "&amp;lt;/table&amp;gt;"

\* What the HTML parser makes of one element of a text: an entity is decoded
\* once.
decodeEntity(t) ==
    CASE t = Ent2TableOpen -> EntTableOpen
      [] t = Ent2TableClose -> EntTableClose
      [] t = EntTableOpen -> TableOpen
      [] t = EntTableClose -> TableClose
      [] OTHER -> t

\* What the HTML serializer writes for one element of a text node.
encodeEntity(t) ==
    CASE t = TableOpen -> EntTableOpen
      [] t = TableClose -> EntTableClose
      [] t = EntTableOpen -> Ent2TableOpen
      [] t = EntTableClose -> Ent2TableClose
      [] OTHER -> t

isTag(t) == t \in {TableOpen, TableOpenUpper, TableClose}

\* tempDiv2.innerHTML = cellText; tempDiv2.textContent: the text is parsed as
\* HTML again, so what reads as a tag becomes an element and is no text, and
\* what is left is decoded a second time.
decodeCellText(text) ==
    LET kept == SelectSeq(text, LAMBDA t : ~isTag(t))
    IN  [i \in 1..Len(kept) |-> decodeEntity(kept[i])]
SP == " "
PIPE == "|"
BACKSLASH == "\\"

\* \s
isWhitespace(c) == c = SP \/ c = LF

RECURSIVE trimStart(_)
trimStart(t) == IF t # << >> /\ isWhitespace(t[1]) THEN trimStart(Tail(t)) ELSE t

RECURSIVE trimEnd(_)
trimEnd(t) ==
    IF t # << >> /\ isWhitespace(t[Len(t)]) THEN trimEnd(SubSeq(t, 1, Len(t) - 1)) ELSE t

\* String.prototype.trim
trim(t) == trimEnd(trimStart(t))

\* cellText.replace(/\s+/g, ' ')
RECURSIVE collapseWhitespace(_)
collapseWhitespace(t) ==
    IF t = << >> THEN << >>
    ELSE IF isWhitespace(t[1]) THEN <<SP>> \o collapseWhitespace(trimStart(t))
    ELSE <<t[1]>> \o collapseWhitespace(Tail(t))

\* cellText.replace(/\|/g, '\\|')
RECURSIVE escapePipes(_)
escapePipes(t) ==
    IF t = << >> THEN << >>
    ELSE (IF t[1] = PIPE THEN <<BACKSLASH, PIPE>> ELSE <<t[1]>>) \o escapePipes(Tail(t))

\* The text pushed for a cell that exists, from its textContent.
cellText(textContent) ==
    escapePipes(collapseWhitespace(trim(decodeCellText(textContent))))

\* Array.prototype.join
RECURSIVE join(_, _)
join(strings, separator) ==
    IF Len(strings) = 0 THEN << >>
    ELSE IF Len(strings) = 1 THEN strings[1]
    ELSE strings[1] \o separator \o join(Tail(strings), separator)

\* The DOM of a table element: the sequence of its sections (thead, tbody), a
\* section being its tag and its rows, a row the sequence of its cells (td or
\* th), a cell its textContent.
RECURSIVE allRows(_)
allRows(table) == IF table = << >> THEN << >> ELSE table[1].rows \o allRows(Tail(table))

\* (table.querySelector('tbody') || table).querySelectorAll('tr')
trElements(table) ==
    IF \E i \in 1..Len(table) : table[i].tag = "tbody"
    THEN table[CHOOSE i \in 1..Len(table) :
                   table[i].tag = "tbody" /\ \A j \in 1..(i - 1) : table[j].tag # "tbody"].rows
    ELSE allRows(table)

maxColumns(trs) ==
    IF trs = << >> THEN 0
    ELSE CHOOSE n \in {Len(trs[i]) : i \in 1..Len(trs)} : \A i \in 1..Len(trs) : Len(trs[i]) <= n

\* '| ' + cells.join(' | ') + ' |'
markdownRow(cells) == <<PIPE, SP>> \o join(cells, <<SP, PIPE, SP>>) \o <<SP, PIPE>>

\* convertTableToMarkdown without its two early returns: a table without a
\* row or without a cell pushes no line and is emitted as '\n' + '' + '\n'.
convertTableToMarkdown_noEmptyCheck(table) ==
    LET trs == trElements(table)
        columns == maxColumns(trs)
        cells(tr) == [i \in 1..columns |-> IF i <= Len(tr) THEN cellText(tr[i]) ELSE << >>]
        separator == [i \in 1..columns |-> <<"-", "-", "-">>]
        rows == [k \in 1..(Len(trs) + 1) |->
                    IF k = 1 THEN markdownRow(cells(trs[1]))
                    ELSE IF k = 2 THEN markdownRow(separator)
                    ELSE markdownRow(cells(trs[k - 1]))]
    IN  IF Len(trs) = 0 \/ columns = 0 THEN <<LF, LF>>
        ELSE <<LF>> \o join(rows, <<LF>>) \o <<LF>>

\* function convertTableToMarkdown(table)
convertTableToMarkdown(table) ==
    LET trs == trElements(table)
        columns == maxColumns(trs)
        cells(tr) == [i \in 1..columns |-> IF i <= Len(tr) THEN cellText(tr[i]) ELSE << >>]
        separator == [i \in 1..columns |-> <<"-", "-", "-">>]
        rows == [k \in 1..(Len(trs) + 1) |->
                    IF k = 1 THEN markdownRow(cells(trs[1]))
                    ELSE IF k = 2 THEN markdownRow(separator)
                    ELSE markdownRow(cells(trs[k - 1]))]
    IN  IF Len(trs) = 0 \/ columns = 0 THEN << >>
        ELSE <<LF>> \o join(rows, <<LF>>) \o <<LF>>

\* tempDiv.innerHTML = match; tempDiv.querySelector('table'): the DOM of the
\* first table element the browser builds from the tags and characters that
\* follow the opening tag of the match.  A section tag opens a section, <tr> a
\* row of the open section (of a tbody the parser supplies if there is none),
\* <td> and <th> a cell of the open row (of a row the parser supplies if there
\* is none), a character is added to the open cell's textContent, decoded; a
\* character met outside a cell is moved out in front of the table.  A table
\* start tag met outside a cell ends the table and opens a second one beside
\* it, which querySelector('table') does not return: the rest of the match is
\* not read.  A table start tag inside a cell (a table nested in the cell, not
\* among the texts pasted here) adds no character to the cell.
RECURSIVE parseInto(_, _)
parseInto(table, tokens) ==
    IF tokens = << >> THEN table
    ELSE LET t == Head(tokens)
             n == Len(table)
             inCell == /\ n > 0
                       /\ Len(table[n].rows) > 0
                       /\ Len(table[n].rows[Len(table[n].rows)]) > 0
             next ==
                 IF t \in {"<thead>", "<tbody>"}
                 THEN Append(table, [tag |-> IF t = "<thead>" THEN "thead" ELSE "tbody",
                                     rows |-> << >>])
                 ELSE IF t = "<tr>"
                 THEN IF n = 0 THEN <<[tag |-> "tbody", rows |-> << << >> >>]>>
                      ELSE [table EXCEPT ![n].rows = Append(@, << >>)]
                 ELSE IF t \in {"<td>", "<th>"}
                 THEN IF n = 0 THEN <<[tag |-> "tbody", rows |-> << << << >> >> >>]>>
                      ELSE IF Len(table[n].rows) = 0
                      THEN [table EXCEPT ![n].rows = << << << >> >> >>]
                      ELSE [table EXCEPT ![n].rows[Len(table[n].rows)] = Append(@, << >>)]
                 ELSE IF ~inCell \/ t \in {TableOpen, TableOpenUpper} THEN table
                 ELSE LET m == Len(table[n].rows)
                      IN  [table EXCEPT ![n].rows[m][Len(table[n].rows[m])] =
                                             Append(@, decodeEntity(t))]
         IN  IF t \in {TableOpen, TableOpenUpper} /\ ~inCell THEN table
             ELSE parseInto(next, Tail(tokens))

parseTable(tokens) == parseInto(<< >>, tokens)

\* html.includes('<table')
includesTable(html) == \E i \in 1..Len(html) : html[i] = TableOpen

\* html.replace(/<table[^>]*>([\s\S]*?)<\/table>/gi, ...): leftmost match
\* first, each match ending at the first closing tag.
RECURSIVE replaceTables(_)
replaceTables(html) ==
    IF html = << >> THEN << >>
    ELSE IF /\ html[1] \in {TableOpen, TableOpenUpper}
            /\ \E j \in 2..Len(html) : html[j] = TableClose
         THEN LET j == CHOOSE j \in 2..Len(html) :
                           html[j] = TableClose /\ \A k \in 2..(j - 1) : html[k] # TableClose
              IN  convertTableToMarkdown(parseTable(SubSeq(html, 2, j - 1)))
                      \o replaceTables(SubSeq(html, j + 1, Len(html)))
         ELSE <<html[1]>> \o replaceTables(Tail(html))

\* function htmlTableToMarkdown(html)
htmlTableToMarkdown(html) ==
    IF html = << >> \/ ~includesTable(html) THEN html ELSE replaceTables(html)

\* =================================================================== state
VARIABLES
    docText,                      \* document.getText()
    docEol,                       \* document.eol: 1 = LF, 2 = CRLF
    isDirty,                      \* document.isDirty: changed since the last save
    isUpdatingFromWebview,        \* isUpdatingFromWebview.value (in-flight flag)
    lastWebviewContent,           \* last-pushed snapshot
    pendingEdits,                 \* workspace.applyEdit promises not yet settled
    clearTimers,                  \* setTimeout(..., 100) callbacks not yet run
    toWebview,                    \* webview.postMessage: extension -> webview
    toHost,                       \* vscode.postMessage: webview -> extension
    root,                         \* editor.model.document.getRoot()
    selection,                    \* editor.model.document.selection (first range)
    suppressNextDataChangeEvent,  \* editor.suppressNextDataChangeEvent
    savedData,                    \* editor.savedData
    dirty,                        \* editor.dirty
    initializedFlag,              \* initializedFlag
    vscodeState,                  \* vscode.setState / vscode.getState
    extensionState,               \* extensionState: activeDocument, activeWebviewPanel
    editorIsActive,               \* context key typedown.editorIsActive
    activeTextEditor,             \* vscode.window.activeTextEditor
    visibleTextEditors,           \* vscode.window.visibleTextEditors
    sessions,                     \* where two custom editors show the document: the
                                  \* closure state of each resolveCustomTextEditor call
    last                          \* what the handler that ran last did: op, the text it
                                  \* was given, flag (the flag it tested, as it was on
                                  \* entry), and how often it called setData, consumed a
                                  \* change notification, posted a message, issued an edit

extVars == <<extensionState, editorIsActive, activeTextEditor, visibleTextEditors, sessions>>
hostVars == <<docText, docEol, isDirty, isUpdatingFromWebview, lastWebviewContent,
              pendingEdits, clearTimers, extVars>>
webVars == <<root, selection, suppressNextDataChangeEvent, savedData, dirty,
             initializedFlag, vscodeState>>
vars == <<docText, docEol, isDirty, isUpdatingFromWebview, lastWebviewContent, pendingEdits,
          clearTimers, toWebview, toHost, root, selection,
          suppressNextDataChangeEvent, savedData, dirty, initializedFlag,
          vscodeState, extensionState, editorIsActive, activeTextEditor,
          visibleTextEditors, sessions, last>>

\* ============================================================ webview side
\* The webview-side state as one value, threaded through the handlers.
\* posted: the messages vscode.postMessage was called with during the handler;
\* setDataCalls: how often editor.setData ran during the handler; threw: an
\* exception left the handler.
webview ==
    [root |-> root, selection |-> selection,
     suppressNextDataChangeEvent |-> suppressNextDataChangeEvent,
     savedData |-> savedData, dirty |-> dirty,
     initializedFlag |-> initializedFlag, vscodeState |-> vscodeState,
     posted |-> << >>, setDataCalls |-> 0, consumed |-> 0, threw |-> FALSE]

getData(w) == joinLines(w.root)

\* editor.model.document.on('change:data', ...)
changeDataListener(w) ==
    IF w.suppressNextDataChangeEvent
    THEN [w EXCEPT !.suppressNextDataChangeEvent = FALSE, !.consumed = @ + 1]
    ELSE LET data == IF includesTable(getData(w))
                     THEN htmlTableToMarkdown(getData(w))
                     ELSE getData(w)
         IN  [w EXCEPT !.posted = Append(@, [type |-> "webviewChanged", text |-> data]),
                       !.dirty = TRUE]

\* editor.setData(text): replaces the content of the root, resets the selection
\* and fires change:data, synchronously, before it returns.
setData(w, text) ==
    changeDataListener([w EXCEPT !.root = splitLines(text),
                                 !.selection = defaultRange,
                                 !.setDataCalls = @ + 1])

\* restoreSelection without the catch block's fallback: an invalid range
\* leaves the selection where setData put it.
restoreSelection_noFallback(w, userSelection) ==
    IF rangeExists(userSelection, w.root)
    THEN [w EXCEPT !.selection = userSelection]
    ELSE w

\* The index of getRoot().getChild(getRoot().childCount - 1)
lastElement(r) == Len(r) - 1

\* writer.setSelection(userSelection) inside try, the catch block otherwise.
\* The catch block's own setSelection is inside no try: if the position after
\* lastElement does not exist the exception leaves setEditorContent.
restoreSelection(w, userSelection) ==
    IF rangeExists(userSelection, w.root)
    THEN [w EXCEPT !.selection = userSelection]
    ELSE IF rangeExists(afterElement(lastElement(w.root)), w.root)
         THEN [w EXCEPT !.selection = afterElement(lastElement(w.root))]
         ELSE [w EXCEPT !.threw = TRUE]

\* setEditorContent without the comparison of the texts: every call after the
\* first replaces the content.
setEditorContent_noCompare(w, text) ==
    IF ~w.initializedFlag
    THEN [setData(w, text) EXCEPT !.initializedFlag = TRUE]
    ELSE LET w1 == restoreSelection(setData(w, text), w.selection)
         IN  IF w1.threw THEN w1 ELSE [w1 EXCEPT !.savedData = getData(w1)]

\* setEditorContent whose first call leaves initializedFlag as it was.
setEditorContent_flagNotSet(w, text) ==
    IF ~w.initializedFlag
    THEN setData(w, text)
    ELSE LET w1 == IF getData(w) # text
                   THEN restoreSelection(setData(w, text), w.selection)
                   ELSE w
         IN  IF w1.threw THEN w1 ELSE [w1 EXCEPT !.savedData = getData(w1)]

\* function setEditorContent(text)
setEditorContent(w, text) ==
    IF ~w.initializedFlag
    THEN [setData(w, text) EXCEPT !.initializedFlag = TRUE]
    ELSE LET w1 == IF getData(w) # text
                   THEN restoreSelection(setData(w, text), w.selection)
                   ELSE w
         IN  IF w1.threw THEN w1 ELSE [w1 EXCEPT !.savedData = getData(w1)]

\* onDocumentChanged without setting the suppression flag first.
onDocumentChanged_noSuppress(w, text) ==
    [setEditorContent(w, text) EXCEPT !.vscodeState = text]

\* window.addEventListener('message', ...), case 'documentChanged'
onDocumentChanged(w, text) ==
    LET w1 == setEditorContent([w EXCEPT !.suppressNextDataChangeEvent = TRUE], text)
    IN  IF w1.threw THEN w1 ELSE [w1 EXCEPT !.vscodeState = text]

\* The script run from its first line in a webview that has been created
\* again: window.editor is a new, empty editor, the script's variables have
\* their initial values, vscode.getState() returns what vscode.setState was
\* last given (NoText: nothing).  The state is restored, then the initialized
\* message is posted.
scriptStart(w) ==
    LET fresh == [w EXCEPT !.root = << << >> >>,
                           !.selection = defaultRange,
                           !.suppressNextDataChangeEvent = FALSE,
                           !.savedData = NoText,
                           !.dirty = FALSE,
                           !.initializedFlag = FALSE]
        restored == IF fresh.vscodeState # NoText
                    THEN setEditorContent(fresh, fresh.vscodeState)
                    ELSE fresh
    IN  [restored EXCEPT !.posted = Append(@, [type |-> "initialized", text |-> << >>])]

\* The webview's variables after a handler that ended in the value w.
WebviewBecomes(w) ==
    /\ root' = w.root
    /\ selection' = w.selection
    /\ suppressNextDataChangeEvent' = w.suppressNextDataChangeEvent
    /\ savedData' = w.savedData
    /\ dirty' = w.dirty
    /\ initializedFlag' = w.initializedFlag
    /\ vscodeState' = w.vscodeState
    /\ Len(toHost) + Len(w.posted) <= MaxQueue
    /\ toHost' = toHost \o w.posted

\* A documentChanged message is delivered to the webview.
DeliverDocumentChanged ==
    /\ toWebview # << >>
    /\ Head(toWebview).type = "documentChanged"
    /\ LET w == onDocumentChanged(webview, Head(toWebview).text)
       IN  /\ WebviewBecomes(w)
           /\ last' = [op |-> "documentChanged", flag |-> initializedFlag, setData |-> w.setDataCalls,
                       consumed |-> w.consumed, posted |-> Len(w.posted), edits |-> 0]
    /\ toWebview' = Tail(toWebview)
    /\ UNCHANGED hostVars

\* The user changes the content in the editor to r: the engine applies the
\* change, leaves the cursor at the end of the document and fires change:data.
UserEditTo(r) ==
    /\ r # root
    /\ LET w == changeDataListener([webview EXCEPT !.root = r,
                                                   !.selection = endOfDocument(r)])
       IN  /\ WebviewBecomes(w)
           /\ last' = [op |-> "userEdit", flag |-> suppressNextDataChangeEvent,
                       setData |-> 0, consumed |-> w.consumed,
                       posted |-> Len(w.posted), edits |-> 0]
    /\ UNCHANGED <<hostVars, toWebview>>

UserEdit == \E r \in EditorRoots : UserEditTo(r)

\* The webview is created again while no message is in transit (the developer
\* command that reloads the webviews): its script runs from the first line
\* and puts its messages on the channel, the extension side is as it was.
WebviewReloads ==
    /\ toHost = << >>
    /\ toWebview = << >>
    /\ LET w == scriptStart(webview)
       IN  /\ root' = w.root
           /\ selection' = w.selection
           /\ suppressNextDataChangeEvent' = w.suppressNextDataChangeEvent
           /\ savedData' = w.savedData
           /\ dirty' = w.dirty
           /\ initializedFlag' = w.initializedFlag
           /\ vscodeState' = w.vscodeState
           /\ toHost' = w.posted
           /\ last' = [op |-> "scriptStart", flag |-> vscodeState # NoText,
                       setData |-> w.setDataCalls, consumed |-> w.consumed,
                       posted |-> Len(w.posted), edits |-> 0]
    /\ UNCHANGED <<hostVars, toWebview>>

\* ========================================================== extension side
\* The bridge's closure state as one value, threaded through the handlers.
bridge ==
    [isUpdatingFromWebview |-> isUpdatingFromWebview,
     lastWebviewContent |-> lastWebviewContent,
     posted |-> << >>, edits |-> << >>]

normalized(text) == replaceEol(text, <<LF>>)

\* updateWebview posting document.getText() as it is.
updateWebview_raw(b) ==
    IF b.isUpdatingFromWebview /\ docText = b.lastWebviewContent
    THEN [b EXCEPT !.isUpdatingFromWebview = FALSE]
    ELSE [b EXCEPT !.posted = Append(@, [type |-> "documentChanged", text |-> docText]),
                   !.isUpdatingFromWebview = FALSE]

\* function updateWebview()
updateWebview(b) ==
    LET normalizedText == normalized(docText)
    IN  IF b.isUpdatingFromWebview /\ normalizedText = normalized(b.lastWebviewContent)
        THEN [b EXCEPT !.isUpdatingFromWebview = FALSE]
        ELSE [b EXCEPT !.posted = Append(@, [type |-> "documentChanged",
                                             text |-> normalizedText]),
                       !.isUpdatingFromWebview = FALSE]

\* saveDocumentSubscription without the test of the in-flight flag.
saveDocumentSubscription_noFlagTest(b) ==
    updateWebview([b EXCEPT !.isUpdatingFromWebview = FALSE])

\* vscode.workspace.onDidSaveTextDocument, for this session's document
saveDocumentSubscription(b) ==
    IF ~b.isUpdatingFromWebview
    THEN updateWebview(b)
    ELSE [b EXCEPT !.isUpdatingFromWebview = FALSE]

eol_chars == IF docEol = 2 THEN <<CR, LF>> ELSE <<LF>>

\* updateTextDocument without the conversion to the document's line ending.
updateTextDocument_noEol(b, rawText) ==
    IF rawText = << >>
    THEN [b EXCEPT !.isUpdatingFromWebview = FALSE]
    ELSE IF rawText # docText
         THEN [b EXCEPT !.edits = Append(@, [rawText |-> rawText, text |-> rawText,
                                             stale |-> FALSE])]
         ELSE [b EXCEPT !.isUpdatingFromWebview = FALSE]

\* updateTextDocument whose branch for identical texts leaves the flag alone.
updateTextDocument_keepsFlag(b, rawText) ==
    IF rawText = << >>
    THEN [b EXCEPT !.isUpdatingFromWebview = FALSE]
    ELSE LET text == replaceEol(rawText, eol_chars)
         IN  IF text # docText
             THEN [b EXCEPT !.edits = Append(@, [rawText |-> rawText, text |-> text,
                                                 stale |-> FALSE])]
             ELSE b

\* MarkdownEditorProvider.updateTextDocument up to the call of applyEdit.
\* An issued edit keeps rawText and the replacement text; stale tells whether
\* the buffer has changed since the edit was made for it.
updateTextDocument(b, rawText) ==
    IF rawText = << >>
    THEN [b EXCEPT !.isUpdatingFromWebview = FALSE]
    ELSE LET text == replaceEol(rawText, eol_chars)
         IN  IF text # docText
             THEN [b EXCEPT !.edits = Append(@, [rawText |-> rawText, text |-> text,
                                                 stale |-> FALSE])]
             ELSE [b EXCEPT !.isUpdatingFromWebview = FALSE]

\* webviewPanel.webview.onDidReceiveMessage
onDidReceiveMessage(b, e) ==
    IF e.type = "webviewChanged"
    THEN updateTextDocument([b EXCEPT !.isUpdatingFromWebview = TRUE,
                                      !.lastWebviewContent = e.text], e.text)
    ELSE IF e.type = "initialized"
    THEN updateWebview(b)
    ELSE b

\* The bridge's variables after a handler that ended in the value b.
BridgeBecomes(b) ==
    /\ isUpdatingFromWebview' = b.isUpdatingFromWebview
    /\ lastWebviewContent' = b.lastWebviewContent
    /\ Len(toWebview) + Len(b.posted) <= MaxQueue
    /\ toWebview' = toWebview \o b.posted
    /\ Len(pendingEdits) + Len(b.edits) <= MaxPending
    /\ pendingEdits' = pendingEdits \o b.edits

\* A message of the webview is delivered to the extension.
DeliverToHost ==
    /\ toHost # << >>
    /\ LET b == onDidReceiveMessage(bridge, Head(toHost))
       IN  /\ BridgeBecomes(b)
           /\ last' = [op |-> Head(toHost).type, flag |-> isUpdatingFromWebview, setData |-> 0, consumed |-> 0,
                       posted |-> Len(b.posted), edits |-> Len(b.edits)]
    /\ toHost' = Tail(toHost)
    /\ UNCHANGED <<extVars, docText, docEol, isDirty, clearTimers, webVars>>

\* The document is saved (by the user or by auto-save).
Save ==
    /\ LET b == saveDocumentSubscription(bridge)
       IN  /\ BridgeBecomes(b)
           /\ last' = [op |-> "save", flag |-> isUpdatingFromWebview, setData |-> 0, consumed |-> 0,
                       posted |-> Len(b.posted), edits |-> Len(b.edits)]
    /\ isDirty' = FALSE
    /\ UNCHANGED <<extVars, docText, docEol, clearTimers, toHost, webVars>>

\* ExternalChange whose change notification clears the in-flight flag.
ExternalChange_clearsFlag ==
    \E t \in BufferTexts :
        /\ t # docText
        /\ docText' = t
        /\ isDirty' = TRUE
        /\ isUpdatingFromWebview' = FALSE
        /\ pendingEdits' = [i \in 1..Len(pendingEdits) |->
                               [pendingEdits[i] EXCEPT !.stale = TRUE]]
        /\ last' = [op |-> "externalChange", flag |-> isUpdatingFromWebview,
                    setData |-> 0, consumed |-> 0, posted |-> 0, edits |-> 0]
        /\ UNCHANGED <<extVars, docEol, lastWebviewContent,
                       clearTimers, toWebview, toHost, webVars>>

\* The buffer is changed to t from outside the custom editor (another editor
\* of the same document, a reload from disk).  onDidChangeTextDocument only
\* logs.
ExternalChangeTo(t) ==
    /\ t # docText
    /\ docText' = t
    /\ isDirty' = TRUE
    /\ pendingEdits' = [i \in 1..Len(pendingEdits) |->
                           [pendingEdits[i] EXCEPT !.stale = TRUE]]
    /\ last' = [op |-> "externalChange", flag |-> isUpdatingFromWebview,
                setData |-> 0, consumed |-> 0, posted |-> 0, edits |-> 0]
    /\ UNCHANGED <<extVars, docEol, isUpdatingFromWebview, lastWebviewContent,
                   clearTimers, toWebview, toHost, webVars>>

ExternalChange == \E t \in BufferTexts : ExternalChangeTo(t)

\* The oldest applyEdit promise resolves with true: the edit was applied.  The
\* host applies an edit only to the version of the document it was made for.
\* The then-callback starts the 100 ms timer.
EditApplied ==
    /\ pendingEdits # << >>
    /\ ~Head(pendingEdits).stale
    /\ clearTimers < MaxTimers
    /\ docText' = Head(pendingEdits).text
    /\ isDirty' = TRUE
    /\ pendingEdits' = [i \in 1..(Len(pendingEdits) - 1) |->
                           [pendingEdits[i + 1] EXCEPT !.stale = TRUE]]
    /\ clearTimers' = clearTimers + 1
    /\ last' = [op |-> "editApplied", flag |-> isUpdatingFromWebview, setData |-> 0, consumed |-> 0,
                posted |-> 0, edits |-> 0]
    /\ UNCHANGED <<extVars, docEol, isUpdatingFromWebview, lastWebviewContent, toWebview, toHost,
                   webVars>>

\* The oldest applyEdit promise resolves with false: the buffer is unchanged.
\* The then-callback starts the 100 ms timer all the same.
EditFailed ==
    /\ pendingEdits # << >>
    /\ clearTimers < MaxTimers
    /\ pendingEdits' = Tail(pendingEdits)
    /\ clearTimers' = clearTimers + 1
    /\ last' = [op |-> "editFailed", flag |-> isUpdatingFromWebview, setData |-> 0, consumed |-> 0,
                posted |-> 0, edits |-> 0]
    /\ UNCHANGED <<extVars, docText, docEol, isDirty, isUpdatingFromWebview, lastWebviewContent,
                   toWebview, toHost, webVars>>

\* EditRejected with an error callback that leaves the flag alone.
EditRejected_keepsFlag ==
    /\ pendingEdits # << >>
    /\ pendingEdits' = Tail(pendingEdits)
    /\ last' = [op |-> "editRejected", flag |-> isUpdatingFromWebview, setData |-> 0,
                consumed |-> 0, posted |-> 0, edits |-> 0]
    /\ UNCHANGED <<extVars, docText, docEol, isDirty, isUpdatingFromWebview, lastWebviewContent,
                   clearTimers, toWebview, toHost, webVars>>

\* The oldest applyEdit promise is rejected: the error callback clears the flag.
EditRejected ==
    /\ pendingEdits # << >>
    /\ pendingEdits' = Tail(pendingEdits)
    /\ isUpdatingFromWebview' = FALSE
    /\ last' = [op |-> "editRejected", flag |-> isUpdatingFromWebview, setData |-> 0, consumed |-> 0,
                posted |-> 0, edits |-> 0]
    /\ UNCHANGED <<extVars, docText, docEol, isDirty, lastWebviewContent, clearTimers, toWebview,
                   toHost, webVars>>

\* A setTimeout callback of updateTextDocument runs.
TimerFires ==
    /\ clearTimers > 0
    /\ clearTimers' = clearTimers - 1
    /\ isUpdatingFromWebview' = FALSE
    /\ last' = [op |-> "timer", flag |-> isUpdatingFromWebview,
                setData |-> 0, consumed |-> 0, posted |-> 0, edits |-> 0]
    /\ UNCHANGED <<extVars, docText, docEol, isDirty, lastWebviewContent, pendingEdits, toWebview,
                   toHost, webVars>>

\* ============================================================= commands
\* A text document is its language and its file name, the name a sequence
\* whose last element is the extension; its uri is its file name.  An editor
\* is the document it shows.  Undefined stands for undefined, UndefinedUri for
\* an undefined uri.
Undefined == [languageId |-> "undefined", fileName |-> << >>]
UndefinedUri == << >>
uriOf(document) == document.fileName
viewType == "typedown.markdownEditor"

\* String.prototype.endsWith, for an extension
endsWith(fileName, suffix) == fileName # << >> /\ fileName[Len(fileName)] = suffix

\* languageId === 'markdown' || fileName.endsWith('.md') || fileName.endsWith('.markdown')
isMarkdownEditor(editor) ==
    \/ editor.languageId = "markdown"
    \/ endsWith(editor.fileName, ".md")
    \/ endsWith(editor.fileName, ".markdown")

\* visibleEditors.find(editor => ...): the first editor that passes the test
find(editors) ==
    IF \E i \in 1..Len(editors) : isMarkdownEditor(editors[i])
    THEN editors[CHOOSE i \in 1..Len(editors) :
                     /\ isMarkdownEditor(editors[i])
                     /\ \A j \in 1..(i - 1) : ~isMarkdownEditor(editors[j])]
    ELSE Undefined

openWith(uri, type) == [command |-> "vscode.openWith", uri |-> uri, viewType |-> type]

\* What a command did: the messages it showed, the commands it executed.
outcome(shown, executed) == [shown |-> shown, executed |-> executed]

\* openWysiwygEditor that opens the active editor whatever it shows.
openWysiwygEditor_anyEditor(uri, args) ==
    IF uri # UndefinedUri
    THEN outcome(<< >>, <<openWith(uri, viewType)>>)
    ELSE outcome(<< >>, <<openWith(uriOf(activeTextEditor), viewType)>>)

\* typedown.openWysiwygEditor.  An argument after the first is a Uri, an
\* object with a resourceUri or another object (its uri undefined).
openWysiwygEditor(uri, args) ==
    LET resourceUri ==
            IF uri = UndefinedUri /\ Len(args) > 0
            THEN IF args[1].kind = "Uri" THEN args[1].uri
                 ELSE IF args[1].kind = "object" /\ args[1].uri # UndefinedUri
                      THEN args[1].uri
                      ELSE uri
            ELSE uri
        markdownEditor ==
            IF activeTextEditor = Undefined \/ ~isMarkdownEditor(activeTextEditor)
            THEN find(visibleTextEditors)
            ELSE activeTextEditor
    IN  IF resourceUri # UndefinedUri
        THEN outcome(<< >>, <<openWith(resourceUri, viewType)>>)
        ELSE IF markdownEditor = Undefined
        THEN outcome(<<[level |-> "warning",
                        message |-> "No markdown file found. Please open a .md file first."]>>,
                     << >>)
        ELSE outcome(<< >>, <<openWith(uriOf(markdownEditor), viewType)>>)

\* typedown.openDefaultEditor
openDefaultEditor(uri) ==
    IF uri # UndefinedUri
    THEN outcome(<< >>, <<openWith(uri, "default")>>)
    ELSE IF extensionState.activeDocument = Undefined
    THEN outcome(<<[level |-> "error", message |-> "No active WYSIWYG editor."]>>, << >>)
    ELSE outcome(<< >>, <<openWith(uriOf(extensionState.activeDocument), "default")>>)

\* Two custom editors on one document (a split editor): each call of
\* resolveCustomTextEditor has its own isUpdatingFromWebview and
\* lastWebviewContent, its own pending applyEdit promises and timers.
Sessions == {"A", "B"}
NewSession ==
    [isUpdatingFromWebview |-> FALSE, lastWebviewContent |-> << >>,
     pendingEdits |-> << >>, clearTimers |-> 0]

\* The document of the custom editor whose buffer and webview are modelled.
document == [languageId |-> "markdown", fileName |-> <<"a", ".md">>]

\* resolveCustomTextEditor has called handleFocusChange for the active panel
\* of document; a custom editor is no text editor.
InitExtension ==
    /\ extensionState = [activeDocument |-> document, activeWebviewPanel |-> uriOf(document)]
    /\ editorIsActive = TRUE
    /\ activeTextEditor = Undefined
    /\ visibleTextEditors = << >>
    /\ sessions = [s \in Sessions |-> NewSession]

\* ============================================================ specification
\* resolveCustomTextEditor has run and the webview's script has run to its
\* end: the editor is empty and the initialized message is on its way.
Init ==
    /\ docText \in BufferTexts
    /\ docEol \in {1, 2}
    /\ isDirty = FALSE
    /\ isUpdatingFromWebview = FALSE
    /\ lastWebviewContent = << >>
    /\ pendingEdits = << >>
    /\ clearTimers = 0
    /\ toWebview = << >>
    /\ toHost = <<[type |-> "initialized", text |-> << >>]>>
    /\ root = <<<< >>>>
    /\ selection = defaultRange
    /\ suppressNextDataChangeEvent = FALSE
    /\ savedData = NoText
    /\ dirty = FALSE
    /\ initializedFlag = FALSE
    /\ vscodeState = NoText
    /\ InitExtension
    /\ last = [op |-> "start", flag |-> FALSE, setData |-> 0,
               consumed |-> 0, posted |-> 0, edits |-> 0]

Next ==
    \/ DeliverDocumentChanged
    \/ UserEdit
    \/ DeliverToHost
    \/ Save
    \/ ExternalChange
    \/ EditApplied
    \/ EditFailed
    \/ EditRejected
    \/ TimerFires

Spec == Init /\ [][Next]_vars

\* ------------------------------------------------ with webview reloads
NextReload ==
    \/ DeliverDocumentChanged
    \/ UserEdit
    \/ DeliverToHost
    \/ Save
    \/ ExternalChange
    \/ EditApplied
    \/ EditFailed
    \/ EditRejected
    \/ TimerFires
    \/ WebviewReloads

SpecReload == Init /\ [][NextReload]_vars

\* ------------------------------------------------ the webview on its own
\* The webview with the extension on the other end of the channel, on texts
\* of up to MaxDocLen characters.  The buffer is changed from outside while it
\* is saved, no message is on its way and no edit is pending, and it is
\* saved at any time; the extension receives the messages of the webview, the
\* edits it issues are left pending, and a message that would have it issue
\* one more than MaxPending stays on the channel.
ExternalChangeDoc ==
    /\ ~isDirty
    /\ toWebview = << >>
    /\ toHost = << >>
    /\ pendingEdits = << >>
    /\ \E t \in DocTexts : ExternalChangeTo(t)

\* The user moves the cursor or selects a range: no change:data.
UserSelect ==
    \E range \in rangesIn(root) :
        /\ range # selection
        /\ selection' = range
        /\ last' = [op |-> "userSelect", flag |-> FALSE, setData |-> 0, consumed |-> 0,
                    posted |-> 0, edits |-> 0]
        /\ UNCHANGED <<hostVars, toWebview, toHost, root, suppressNextDataChangeEvent,
                       savedData, dirty, initializedFlag, vscodeState>>

UserEditDoc == \E r \in DocRoots : UserEditTo(r)

\* resolveCustomTextEditor has run for a document of up to MaxDocLen
\* characters and the webview's script has run to its end.
InitWebview ==
    /\ docText \in DocTexts
    /\ docEol = 1
    /\ isDirty = FALSE
    /\ isUpdatingFromWebview = FALSE
    /\ lastWebviewContent = << >>
    /\ pendingEdits = << >>
    /\ clearTimers = 0
    /\ toWebview = << >>
    /\ toHost = <<[type |-> "initialized", text |-> << >>]>>
    /\ root = <<<< >>>>
    /\ selection = defaultRange
    /\ suppressNextDataChangeEvent = FALSE
    /\ savedData = NoText
    /\ dirty = FALSE
    /\ initializedFlag = FALSE
    /\ vscodeState = NoText
    /\ InitExtension
    /\ last = [op |-> "start", flag |-> FALSE, setData |-> 0,
               consumed |-> 0, posted |-> 0, edits |-> 0]

NextWebview ==
    \/ ExternalChangeDoc
    \/ Save
    \/ DeliverToHost
    \/ DeliverDocumentChanged
    \/ UserEditDoc
    \/ UserSelect

SpecWebview == InitWebview /\ [][NextWebview]_vars

\* ---------------------------------------------- the extension on its own
\* The buffer holds any text of EolTexts and the first message on the channel
\* is the initialized message or a webviewChanged message with any text of
\* EolTexts; the webview receives the messages of the extension and the user
\* changes nothing in it.
InitBridge ==
    /\ docText \in EolTexts
    /\ docEol \in {1, 2}
    /\ isDirty = FALSE
    /\ isUpdatingFromWebview = FALSE
    /\ lastWebviewContent = << >>
    /\ pendingEdits = << >>
    /\ clearTimers = 0
    /\ toWebview = << >>
    /\ toHost \in {<<[type |-> "initialized", text |-> << >>]>>}
                   \cup {<<[type |-> "webviewChanged", text |-> t]>> : t \in EolTexts}
    /\ root = <<<< >>>>
    /\ selection = defaultRange
    /\ suppressNextDataChangeEvent = FALSE
    /\ savedData = NoText
    /\ dirty = FALSE
    /\ initializedFlag = FALSE
    /\ vscodeState = NoText
    /\ InitExtension
    /\ last = [op |-> "start", flag |-> FALSE, setData |-> 0,
               consumed |-> 0, posted |-> 0, edits |-> 0]

NextBridge ==
    \/ DeliverToHost
    \/ Save
    \/ EditApplied
    \/ EditFailed
    \/ EditRejected
    \/ TimerFires
    \/ DeliverDocumentChanged

SpecBridge == InitBridge /\ [][NextBridge]_vars

\* ------------------------------------------------- the table conversion
\* The HTML texts the editor is given: one table element of up to MaxSections
\* sections, MaxRows rows a section and MaxCells cells a row; one table element
\* of a single row with any cell text; a text of up to MaxFragments fragments,
\* a fragment being a character, a table element (its tags in lower or in
\* upper case) or an opening tag that is never closed; one table element of a
\* single cell whose text holds up to MaxMarkupLen elements that read as
\* table tags, as they are or once decoded.
CellChars == {"a", SP, PIPE, BACKSLASH}
CellTexts == SeqsUpTo(CellChars, MaxCellLen)
MarkupChars == {"a", TableOpen, TableClose, EntTableOpen, EntTableClose}
MarkupTexts == SeqsUpTo(MarkupChars, MaxMarkupLen)
CellNames == {<<"a">>, <<"b">>}
TableRows == SeqsUpTo(CellNames, MaxCells)
TableSections ==
    {[tag |-> g, rows |-> r] : g \in {"thead", "tbody"}, r \in SeqsUpTo(TableRows, MaxRows)}
OneRowTables ==
    {<<[tag |-> "tbody", rows |-> <<r>>]>> :
        r \in {<<t>> : t \in CellTexts \cup MarkupTexts}
              \cup {<<t, u>> : t \in CellTexts, u \in SeqsUpTo(CellChars, 1)}}
Tables == SeqsUpTo(TableSections, MaxSections) \cup OneRowTables

flatten(strings) == join(strings, << >>)

\* The HTML of a table element: a section's tag, then <tr> before each of its
\* rows, <th> (in a thead) or <td> before each cell's text, the text encoded.
outerHTML(open, table) ==
    LET cellHTML(g, c) ==
            <<IF g = "thead" THEN "<th>" ELSE "<td>">>
                \o [i \in 1..Len(c) |-> encodeEntity(c[i])]
        rowHTML(g, r) == <<"<tr>">> \o flatten([i \in 1..Len(r) |-> cellHTML(g, r[i])])
        sectionHTML(sec) ==
            <<IF sec.tag = "thead" THEN "<thead>" ELSE "<tbody>">>
                \o flatten([i \in 1..Len(sec.rows) |-> rowHTML(sec.tag, sec.rows[i])])
    IN  <<open>> \o flatten([i \in 1..Len(table) |-> sectionHTML(table[i])]) \o <<TableClose>>

SmallTable == <<[tag |-> "tbody", rows |-> << << <<"a">> >> >>]>>
Fragments ==
    {<<"x">>, <<TableOpen>>, outerHTML(TableOpen, SmallTable),
     outerHTML(TableOpenUpper, SmallTable)}
HtmlTexts ==
    {outerHTML(TableOpen, t) : t \in Tables}
        \cup {flatten(f) : f \in SeqsUpTo(Fragments, MaxFragments)}

\* The user pastes an HTML text into the empty document, once the webview has
\* loaded it.
PasteHtml ==
    /\ root = << << >> >>
    /\ initializedFlag
    /\ \E html \in HtmlTexts \ {<< >>} : UserEditTo(<<html>>)

NextTable ==
    \/ DeliverToHost
    \/ DeliverDocumentChanged
    \/ PasteHtml

\* The document is empty.
InitTable ==
    /\ Init
    /\ docText = << >>
    /\ docEol = 1

SpecTable == InitTable /\ [][NextTable]_vars

\* ------------------------------------------------ the commands on their own
\* The extension has been activated and no custom editor has been opened.  The
\* user opens, closes and focuses text editors, opens and focuses custom
\* editors, and runs the two commands: from the command palette (no
\* argument), from the explorer (a uri) or from a tab (an object after the
\* first argument).
Documents ==
    {[languageId |-> "plaintext", fileName |-> <<"a", ".md">>],
     [languageId |-> "plaintext", fileName |-> <<"b", ".markdown">>],
     [languageId |-> "markdown", fileName |-> <<"c", ".txt">>],
     [languageId |-> "plaintext", fileName |-> <<"d", ".txt">>]}
Uris == {uriOf(d) : d \in Documents}
ArgLists ==
    {<< >>}
        \cup {<<[kind |-> "Uri", uri |-> u]>> : u \in Uris}
        \cup {<<[kind |-> "object", uri |-> u]>> : u \in Uris \cup {UndefinedUri}}

\* The text editors shown change; the active one, if any, is one of them.
WindowChanges ==
    \E visible \in SeqsUpTo(Documents, MaxVisible) :
        \E active \in {Undefined} \cup {visible[i] : i \in 1..Len(visible)} :
            /\ <<active, visible>> # <<activeTextEditor, visibleTextEditors>>
            /\ activeTextEditor' = active
            /\ visibleTextEditors' = visible
            /\ last' = [op |-> "windowChanges", uri |-> UndefinedUri, args |-> << >>,
                        shown |-> << >>, executed |-> << >>]
            /\ UNCHANGED <<docText, docEol, isDirty, isUpdatingFromWebview,
                           lastWebviewContent, pendingEdits, clearTimers, toWebview, toHost,
                           webVars, extensionState, editorIsActive, sessions>>

\* handleFocusChange(panel) with panel.active, panel the custom editor of d.
PanelActive ==
    \E d \in Documents :
        /\ extensionState' = [activeDocument |-> d, activeWebviewPanel |-> uriOf(d)]
        /\ editorIsActive' = TRUE
        /\ last' = [op |-> "panelActive", uri |-> uriOf(d), args |-> << >>,
                    shown |-> << >>, executed |-> << >>]
        /\ UNCHANGED <<docText, docEol, isDirty, isUpdatingFromWebview,
                       lastWebviewContent, pendingEdits, clearTimers, toWebview, toHost,
                       webVars, activeTextEditor, visibleTextEditors, sessions>>

\* handleFocusChange(panel) with panel inactive, panel being
\* extensionState.activeWebviewPanel.
PanelInactive ==
    /\ extensionState.activeWebviewPanel # UndefinedUri
    /\ editorIsActive
    /\ editorIsActive' = FALSE
    /\ last' = [op |-> "panelInactive", uri |-> extensionState.activeWebviewPanel,
                args |-> << >>, shown |-> << >>, executed |-> << >>]
    /\ UNCHANGED <<docText, docEol, isDirty, isUpdatingFromWebview,
                   lastWebviewContent, pendingEdits, clearTimers, toWebview, toHost,
                   webVars, extensionState, activeTextEditor, visibleTextEditors, sessions>>

\* webviewPanel.onDidDispose of the panel that is
\* extensionState.activeWebviewPanel: the custom editor is closed.
PanelDisposed ==
    /\ extensionState.activeWebviewPanel # UndefinedUri
    /\ editorIsActive' = FALSE
    /\ last' = [op |-> "panelDisposed", uri |-> extensionState.activeWebviewPanel,
                args |-> << >>, shown |-> << >>, executed |-> << >>]
    /\ UNCHANGED <<docText, docEol, isDirty, isUpdatingFromWebview,
                   lastWebviewContent, pendingEdits, clearTimers, toWebview, toHost,
                   webVars, extensionState, activeTextEditor, visibleTextEditors, sessions>>

OpenWysiwygEditor ==
    \E uri \in Uris \cup {UndefinedUri}, args \in ArgLists :
        /\ last' = [op |-> "openWysiwygEditor", uri |-> uri, args |-> args,
                    shown |-> openWysiwygEditor(uri, args).shown,
                    executed |-> openWysiwygEditor(uri, args).executed]
        /\ UNCHANGED <<hostVars, toWebview, toHost, webVars>>

OpenDefaultEditor ==
    \E uri \in Uris \cup {UndefinedUri} :
        /\ last' = [op |-> "openDefaultEditor", uri |-> uri, args |-> << >>,
                    shown |-> openDefaultEditor(uri).shown,
                    executed |-> openDefaultEditor(uri).executed]
        /\ UNCHANGED <<hostVars, toWebview, toHost, webVars>>

InitCommands ==
    /\ docText = << >>
    /\ docEol = 1
    /\ isDirty = FALSE
    /\ isUpdatingFromWebview = FALSE
    /\ lastWebviewContent = << >>
    /\ pendingEdits = << >>
    /\ clearTimers = 0
    /\ toWebview = << >>
    /\ toHost = << >>
    /\ root = <<<< >>>>
    /\ selection = defaultRange
    /\ suppressNextDataChangeEvent = FALSE
    /\ savedData = NoText
    /\ dirty = FALSE
    /\ initializedFlag = FALSE
    /\ vscodeState = NoText
    /\ extensionState = [activeDocument |-> Undefined, activeWebviewPanel |-> UndefinedUri]
    /\ editorIsActive = FALSE
    /\ activeTextEditor = Undefined
    /\ visibleTextEditors = << >>
    /\ sessions = [s \in Sessions |-> NewSession]
    /\ last = [op |-> "activate", uri |-> UndefinedUri, args |-> << >>,
               shown |-> << >>, executed |-> << >>]

NextCommands ==
    \/ WindowChanges
    \/ PanelActive
    \/ PanelInactive
    \/ PanelDisposed
    \/ OpenWysiwygEditor
    \/ OpenDefaultEditor

SpecCommands == InitCommands /\ [][NextCommands]_vars

\* ============================================== leaving a code block
\* Where the key handlers are modelled the root is a tree: a child of the
\* root is a paragraph or a code block (leaves: text is the sequence of their
\* items, a character or a line break element) or a block quote (children: a
\* sequence of leaves).  A position is a path as before: <<i, o>> is offset o
\* in child i of the root, <<i, j, o>> offset o in child j of child i.
SoftBreak == "<softBreak>"
paragraph(text) == [name |-> "paragraph", text |-> text, children |-> << >>]
codeBlock(text) == [name |-> "codeBlock", text |-> text, children |-> << >>]
blockQuote(children) == [name |-> "blockQuote", text |-> << >>, children |-> children]

Null == << >>

\* position.parent as the path of an element, position.offset
parentOf(position) == SubSeq(position, 1, Len(position) - 1)
offsetOf(position) == position[Len(position)]

\* The element at a path of child indexes; << >> is the root.
elementAt(r, path) ==
    IF Len(path) = 1 THEN r[path[1] + 1] ELSE r[path[1] + 1].children[path[2] + 1]

\* Array.from(element.getChildren()) for the element at a path
childrenOf(r, path) == IF path = << >> THEN r ELSE elementAt(r, path).children

\* element.maxOffset
maxOffset(element) ==
    IF element.name = "blockQuote" THEN Len(element.children) ELSE Len(element.text)

\* position.isBefore(other): the paths compared element by element
RECURSIVE isBefore(_, _)
isBefore(p, q) ==
    IF p = << >> \/ q = << >> THEN FALSE
    ELSE IF p[1] # q[1] THEN p[1] < q[1]
    ELSE isBefore(Tail(p), Tail(q))

\* model.createRangeIn(element)
createRangeIn(r, path) ==
    [start |-> path \o <<0>>, end |-> path \o <<maxOffset(elementAt(r, path))>>]

\* range.containsPosition(position): both ends are exclusive
containsPosition(range, position) ==
    isBefore(range.start, position) /\ isBefore(position, range.end)

\* findCodeBlock(): the path of the code block found walking up from the
\* parent of the selection's first position, or Null.  The selection is a
\* cursor here, so no element is selected.
RECURSIVE walkUp(_, _, _)
walkUp(r, parent, depth) ==
    IF depth >= 10 \/ parent = << >> THEN Null
    ELSE IF elementAt(r, parent).name \in {"codeBlock", "code", "fencedCode"} THEN parent
    ELSE walkUp(r, parentOf(parent), depth + 1)

findCodeBlock(w) == walkUp(w.root, parentOf(w.selection.start), 0)

\* The text of the items of a code block after offset o: a line break element
\* has no data.
textAfter(element, o) ==
    SelectSeq(SubSeq(element.text, o + 1, Len(element.text)), LAMBDA c : c # SoftBreak)

\* isAtEndOfCodeBlock with a tolerance of 6 positions.
isAtEndOfCodeBlock_tolerance6(w, block, position) ==
    IF block = Null THEN FALSE
    ELSE LET codeBlockRange == createRangeIn(w.root, block)
             distanceFromEnd == offsetOf(codeBlockRange.end) - offsetOf(position)
         IN  IF ~containsPosition(codeBlockRange, position) THEN FALSE
             ELSE position = codeBlockRange.end
                      \/ (distanceFromEnd >= 0 /\ distanceFromEnd <= 6)

\* function isAtEndOfCodeBlock(codeBlock, position)
isAtEndOfCodeBlock(w, block, position) ==
    IF block = Null THEN FALSE
    ELSE LET codeBlockRange == createRangeIn(w.root, block)
             distanceFromEnd == offsetOf(codeBlockRange.end) - offsetOf(position)
         IN  IF ~containsPosition(codeBlockRange, position) THEN FALSE
             ELSE position = codeBlockRange.end
                      \/ (distanceFromEnd >= 0 /\ distanceFromEnd <= 5)

\* function isAtStartOfCodeBlock(codeBlock, position)
isAtStartOfCodeBlock(w, block, position) ==
    IF block = Null THEN FALSE
    ELSE LET codeBlockRange == createRangeIn(w.root, block)
         IN  IF ~containsPosition(codeBlockRange, position) THEN FALSE
             ELSE position = codeBlockRange.start

\* children.indexOf(codeBlock), children the children of the root
indexOf(block) == IF Len(block) = 1 THEN block[1] ELSE -1

\* The sequence s with x put in before index i (0-based).
insertAt(s, i, x) == SubSeq(s, 1, i) \o <<x>> \o SubSeq(s, i + 1, Len(s))

\* writer.insert(element, position), position between the children of the
\* root or of a block quote
insert(r, element, position) ==
    IF Len(position) = 1 THEN insertAt(r, position[1], element)
    ELSE [r EXCEPT ![position[1] + 1].children = insertAt(@, position[2], element)]

\* model.createPositionBefore(element), model.createPositionAfter(element)
createPositionBefore(path) == path
createPositionAfter(path) ==
    [i \in 1..Len(path) |-> IF i = Len(path) THEN path[i] + 1 ELSE path[i]]

\* editor.getData() for a tree: the lines of its blocks, a code block between
\* two fence lines, the blocks of a block quote after a '>'.
Fence == "~~~"
RECURSIVE markdownLines(_, _)
markdownLines(blocks, prefix) ==
    IF blocks = << >> THEN << >>
    ELSE LET b == blocks[1]
             lines == IF b.name = "blockQuote" THEN markdownLines(b.children, <<">">>)
                      ELSE IF b.name = "codeBlock"
                           THEN <<prefix \o <<Fence>>,
                                  prefix \o [i \in 1..Len(b.text) |->
                                                IF b.text[i] = SoftBreak THEN LF
                                                ELSE b.text[i]],
                                  prefix \o <<Fence>>>>
                           ELSE <<prefix \o b.text>>
         IN  lines \o markdownLines(Tail(blocks), prefix)

\* model.change(writer => ...) that inserted an element: the change is applied
\* and change:data is fired.
changeData(w) ==
    LET fired == changeDataListener([w EXCEPT !.root = markdownLines(w.root, << >>)])
    IN  [fired EXCEPT !.root = w.root]

\* A key handler's result: the webview, whether cancel() was called.
handled(w) == [w |-> w, cancelled |-> TRUE]
notHandled(w) == [w |-> w, cancelled |-> FALSE]

\* insertParagraph that puts the paragraph at the end of the root.
insertParagraph_atEndOfRoot(w, position) ==
    changeData([w EXCEPT !.root = Append(w.root, paragraph(<< >>)),
                         !.selection = collapsed(<<Len(w.root), 0>>)])

\* const paragraph = writer.createElement('paragraph');
\* writer.insert(paragraph, position); writer.setSelection(paragraph, 0 / 'end')
insertParagraph(w, position) ==
    changeData([w EXCEPT !.root = insert(w.root, paragraph(<< >>), position),
                         !.selection = collapsed(position \o <<0>>)])

\* writer.setSelection(children[index], 0) and (children[index], 'end')
selectStartOf(w, index) == [w EXCEPT !.selection = collapsed(<<index, 0>>)]
selectEndOf(w, index) ==
    [w EXCEPT !.selection = collapsed(<<index, maxOffset(w.root[index + 1])>>)]

\* editor.keystrokes.set('ArrowDown', ...)
onArrowDown(w) ==
    LET block == findCodeBlock(w)
        position == w.selection.start
        codeBlockRange == createRangeIn(w.root, block)
        codeBlockEnd == offsetOf(codeBlockRange.end)
        isInside == containsPosition(codeBlockRange, position)
        isAtEnd == offsetOf(position) >= codeBlockEnd
        positionFromEnd == codeBlockEnd - offsetOf(position)
        after == textAfter(elementAt(w.root, block), offsetOf(position))
        noNewlineAfter == \A i \in 1..Len(after) : after[i] # LF
        veryCloseToEnd == positionFromEnd <= 3
        isAtEndOfLastLine == noNewlineAfter /\ (veryCloseToEnd \/ trim(after) = << >>)
        shouldExit == IF isAtEnd \/ positionFromEnd <= 0 THEN TRUE ELSE isAtEndOfLastLine
        codeBlockIndex == indexOf(block)
    IN  IF block = Null THEN notHandled(w)
        ELSE IF ~(isInside \/ isAtEnd) THEN notHandled(w)
        ELSE IF ~shouldExit THEN notHandled(w)
        ELSE IF codeBlockIndex >= 0 /\ codeBlockIndex < Len(w.root) - 1
        THEN handled(selectStartOf(w, codeBlockIndex + 1))
        ELSE handled(insertParagraph(w, createPositionAfter(block)))

\* editor.keystrokes.set('ArrowUp', ...)
onArrowUp(w) ==
    LET block == findCodeBlock(w)
        codeBlockIndex == indexOf(block)
    IN  IF block = Null THEN notHandled(w)
        ELSE IF ~isAtStartOfCodeBlock(w, block, w.selection.start) THEN notHandled(w)
        ELSE IF codeBlockIndex > 0
        THEN handled(selectEndOf(w, codeBlockIndex - 1))
        ELSE handled(insertParagraph(w, createPositionBefore(block)))

\* editor.keystrokes.set('Enter', ...)
onEnter(w) ==
    LET block == findCodeBlock(w)
    IN  IF block = Null THEN notHandled(w)
        ELSE IF ~isAtEndOfCodeBlock(w, block, w.selection.start) THEN notHandled(w)
        ELSE handled(insertParagraph(w, createPositionAfter(block)))

\* editor.keystrokes.set('Esc', ...)
onEsc(w) ==
    LET block == findCodeBlock(w)
        codeBlockIndex == indexOf(block)
    IN  IF block = Null THEN notHandled(w)
        ELSE IF codeBlockIndex >= 0 /\ codeBlockIndex < Len(w.root) - 1
        THEN handled(selectStartOf(w, codeBlockIndex + 1))
        ELSE IF codeBlockIndex > 0
        THEN handled(selectEndOf(w, codeBlockIndex - 1))
        ELSE handled(insertParagraph(w, createPositionAfter(block)))

\* ----------------------------------------------------- the keys on their own
\* The document holds one code block of up to MaxCodeLen items (letters and
\* spaces, or letters and line break elements, or letters and line feed
\* characters in the text) or of up to MaxLongLen letters or spaces, alone or
\* with a paragraph before it,
\* after it or both, at the top level or inside a block quote; the cursor is
\* anywhere in a paragraph or in the code block.
\* The user presses the four keys and moves the cursor; the messages of the
\* webview stay on the channel, and no key that would post is pressed once
\* the channel holds MaxQueue messages or the root or a block quote holds
\* MaxBlocks blocks.
CodeTexts ==
    SeqsUpTo({"a", SP}, MaxCodeLen)
        \cup SeqsUpTo({"a", SoftBreak}, MaxCodeLen)
        \cup SeqsUpTo({"a", LF}, MaxCodeLen)
        \cup {[i \in 1..n |-> c] : n \in (MaxCodeLen + 1)..MaxLongLen, c \in {"a", SP}}
withSiblings(block) ==
    {<<block>>, <<paragraph(<<"a">>), block>>, <<block, paragraph(<<"a">>)>>,
     <<paragraph(<<"a">>), block, paragraph(<<"a">>)>>}
KeyRoots ==
    UNION {withSiblings(codeBlock(t))
               \cup {<<blockQuote(q)>> : q \in withSiblings(codeBlock(t))}
               \cup {<<blockQuote(<<codeBlock(t)>>), paragraph(<<"a">>)>>} : t \in CodeTexts}

\* The positions inside the leaves of a tree.
cursorsIn(r) ==
    {<<i - 1, o>> : i \in {k \in 1..Len(r) : r[k].name # "blockQuote"}, o \in 0..MaxLongLen}
        \cup {<<i - 1, j - 1, o>> : i \in {k \in 1..Len(r) : r[k].name = "blockQuote"},
                                    j \in 1..MaxBlocks, o \in 0..MaxLongLen}
leafPositions(r) ==
    {p \in cursorsIn(r) :
        /\ Len(p) = 3 => p[2] < Len(r[p[1] + 1].children)
        /\ p[Len(p)] <= maxOffset(elementAt(r, parentOf(p)))}

\* No row of blocks is full.
roomForBlock(r) ==
    /\ Len(r) < MaxBlocks
    /\ \A i \in 1..Len(r) : Len(r[i].children) < MaxBlocks

\* The webview after a key handler that ended in result.
KeyHandled(key, result) ==
    /\ WebviewBecomes(result.w)
    /\ last' = [op |-> key, cancelled |-> result.cancelled,
                posted |-> Len(result.w.posted), consumed |-> result.w.consumed]
    /\ UNCHANGED <<hostVars, toWebview>>

ArrowDown ==
    /\ roomForBlock(root)
    /\ KeyHandled("ArrowDown", onArrowDown(webview))

ArrowUp ==
    /\ roomForBlock(root)
    /\ KeyHandled("ArrowUp", onArrowUp(webview))

Enter ==
    /\ roomForBlock(root)
    /\ KeyHandled("Enter", onEnter(webview))

Esc ==
    /\ roomForBlock(root)
    /\ KeyHandled("Esc", onEsc(webview))

\* The user puts the cursor somewhere else.
MoveCursor ==
    \E p \in leafPositions(root) :
        /\ collapsed(p) # selection
        /\ selection' = collapsed(p)
        /\ last' = [op |-> "moveCursor", cancelled |-> FALSE, posted |-> 0, consumed |-> 0]
        /\ UNCHANGED <<hostVars, toWebview, toHost, root, suppressNextDataChangeEvent,
                       savedData, dirty, initializedFlag, vscodeState>>

InitKeys ==
    /\ docText = << >>
    /\ docEol = 1
    /\ isDirty = FALSE
    /\ isUpdatingFromWebview = FALSE
    /\ lastWebviewContent = << >>
    /\ pendingEdits = << >>
    /\ clearTimers = 0
    /\ toWebview = << >>
    /\ toHost = << >>
    /\ root \in KeyRoots
    /\ selection \in {collapsed(p) : p \in leafPositions(root)}
    /\ suppressNextDataChangeEvent = FALSE
    /\ savedData = NoText
    /\ dirty = FALSE
    /\ initializedFlag = TRUE
    /\ vscodeState = NoText
    /\ InitExtension
    /\ last = [op |-> "start", cancelled |-> FALSE, posted |-> 0, consumed |-> 0]

NextKeys ==
    \/ ArrowDown
    \/ ArrowUp
    \/ Enter
    \/ Esc
    \/ MoveCursor

SpecKeys == InitKeys /\ [][NextKeys]_vars

\* ------------------------------------------- two editors on one document
\* The two sessions share the buffer; the webviews are left out: a message of
\* a webview is any message, what a handler posts is kept in last.  The
\* handlers are those of the single session, given the closure of session s.
bridgeOf(s) ==
    [isUpdatingFromWebview |-> sessions[s].isUpdatingFromWebview,
     lastWebviewContent |-> sessions[s].lastWebviewContent,
     posted |-> << >>, edits |-> << >>]

Messages ==
    {[type |-> "initialized", text |-> << >>]}
        \cup {[type |-> "webviewChanged", text |-> t] : t \in EditorTexts}

\* The variables of the single session and of the window.
oneSessionVars ==
    <<isUpdatingFromWebview, lastWebviewContent, pendingEdits, clearTimers, toWebview,
      toHost, webVars, extensionState, editorIsActive, activeTextEditor,
      visibleTextEditors>>

\* The pending edits of every session but s are no longer for the buffer as
\* it is.
othersStale(ss, s) ==
    [x \in Sessions |->
        IF x = s THEN ss[x]
        ELSE [ss[x] EXCEPT !.pendingEdits =
                  [i \in 1..Len(@) |-> [@[i] EXCEPT !.stale = TRUE]]]]

\* webviewPanel.webview.onDidReceiveMessage of session s
Receives(s) ==
    \E e \in Messages :
        LET b == onDidReceiveMessage(bridgeOf(s), e)
        IN  /\ Len(sessions[s].pendingEdits) + Len(b.edits) <= MaxPending
            /\ sessions' = [sessions EXCEPT
                                ![s].isUpdatingFromWebview = b.isUpdatingFromWebview,
                                ![s].lastWebviewContent = b.lastWebviewContent,
                                ![s].pendingEdits = @ \o b.edits]
            /\ last' = [op |-> e.type, session |-> s, text |-> e.text,
                        posted |-> [x \in Sessions |-> IF x = s THEN b.posted ELSE << >>]]
            /\ UNCHANGED <<docText, docEol, isDirty, oneSessionVars>>

\* The document is saved: the save handler of every session runs.
SaveAll ==
    /\ sessions' = [s \in Sessions |->
                       [sessions[s] EXCEPT !.isUpdatingFromWebview =
                            saveDocumentSubscription(bridgeOf(s)).isUpdatingFromWebview]]
    /\ isDirty' = FALSE
    /\ last' = [op |-> "save", session |-> "all", text |-> docText,
                posted |-> [s \in Sessions |-> saveDocumentSubscription(bridgeOf(s)).posted]]
    /\ UNCHANGED <<docText, docEol, oneSessionVars>>

\* The oldest applyEdit promise of session s resolves with true.
Applied(s) ==
    /\ sessions[s].pendingEdits # << >>
    /\ ~Head(sessions[s].pendingEdits).stale
    /\ sessions[s].clearTimers < MaxTimers
    /\ docText' = Head(sessions[s].pendingEdits).text
    /\ isDirty' = TRUE
    /\ sessions' = othersStale([sessions EXCEPT
                                    ![s].pendingEdits =
                                        [i \in 1..(Len(@) - 1) |-> [@[i + 1] EXCEPT !.stale = TRUE]],
                                    ![s].clearTimers = @ + 1], s)
    /\ last' = [op |-> "editApplied", session |-> s,
                text |-> Head(sessions[s].pendingEdits).rawText,
                posted |-> [x \in Sessions |-> << >>]]
    /\ UNCHANGED <<docEol, oneSessionVars>>

\* The oldest applyEdit promise of session s resolves with false.
Failed(s) ==
    /\ sessions[s].pendingEdits # << >>
    /\ sessions[s].clearTimers < MaxTimers
    /\ sessions' = [sessions EXCEPT ![s].pendingEdits = Tail(@),
                                    ![s].clearTimers = @ + 1]
    /\ last' = [op |-> "editFailed", session |-> s, text |-> << >>,
                posted |-> [x \in Sessions |-> << >>]]
    /\ UNCHANGED <<docText, docEol, isDirty, oneSessionVars>>

\* The oldest applyEdit promise of session s is rejected: the error callback
\* clears the flag of the session, no timer is started.
Rejected(s) ==
    /\ sessions[s].pendingEdits # << >>
    /\ sessions' = [sessions EXCEPT ![s].pendingEdits = Tail(@),
                                    ![s].isUpdatingFromWebview = FALSE]
    /\ last' = [op |-> "editRejected", session |-> s, text |-> << >>,
                posted |-> [x \in Sessions |-> << >>]]
    /\ UNCHANGED <<docText, docEol, isDirty, oneSessionVars>>

\* A setTimeout callback of session s runs.
TimerOf(s) ==
    /\ sessions[s].clearTimers > 0
    /\ sessions' = [sessions EXCEPT ![s].clearTimers = @ - 1,
                                    ![s].isUpdatingFromWebview = FALSE]
    /\ last' = [op |-> "timer", session |-> s, text |-> << >>,
                posted |-> [x \in Sessions |-> << >>]]
    /\ UNCHANGED <<docText, docEol, isDirty, oneSessionVars>>

\* resolveCustomTextEditor has run for both panels.
InitSessions ==
    /\ docText \in BufferTexts
    /\ docEol \in {1, 2}
    /\ isDirty = FALSE
    /\ isUpdatingFromWebview = FALSE
    /\ lastWebviewContent = << >>
    /\ pendingEdits = << >>
    /\ clearTimers = 0
    /\ toWebview = << >>
    /\ toHost = << >>
    /\ root = <<<< >>>>
    /\ selection = defaultRange
    /\ suppressNextDataChangeEvent = FALSE
    /\ savedData = NoText
    /\ dirty = FALSE
    /\ initializedFlag = FALSE
    /\ vscodeState = NoText
    /\ InitExtension
    /\ last = [op |-> "start", session |-> "all", text |-> << >>,
               posted |-> [x \in Sessions |-> << >>]]

NextSessions ==
    \/ \E s \in Sessions : Receives(s)
    \/ SaveAll
    \/ \E s \in Sessions : Applied(s)
    \/ \E s \in Sessions : Failed(s)
    \/ \E s \in Sessions : Rejected(s)
    \/ \E s \in Sessions : TimerOf(s)

SpecSessions == InitSessions /\ [][NextSessions]_vars

\* Fairness: an applyEdit promise settles and a started timer runs.
FairSpec ==
    /\ Spec
    /\ WF_vars(EditApplied \/ EditFailed \/ EditRejected)
    /\ WF_vars(TimerFires)

\* ============================================================== properties
\* Nothing is pending: no message in transit, no edit unsettled, no timer
\* started, no change of the buffer whose save is still to come.
Quiescent ==
    /\ ~isDirty
    /\ toWebview = << >>
    /\ toHost = << >>
    /\ pendingEdits = << >>
    /\ clearTimers = 0

\* The lines of a text, a line ending being \r\n, \r or \n.
RECURSIVE linesOf(_)
linesOf(text) ==
    LET isEol(i) == text[i] = CR \/ text[i] = LF
    IN  IF \A i \in 1..Len(text) : ~isEol(i) THEN <<text>>
        ELSE LET k == CHOOSE i \in 1..Len(text) : isEol(i) /\ \A j \in 1..(i - 1) : ~isEol(j)
                 n == IF text[k] = CR /\ k < Len(text) /\ text[k + 1] = LF THEN 2 ELSE 1
             IN  <<SubSeq(text, 1, k - 1)>> \o linesOf(SubSeq(text, k + n, Len(text)))

\* Every line ending of the text is the one of the buffer's convention.
OnlyConventionEols(text) ==
    IF docEol = 2
    THEN \A i \in 1..Len(text) :
            /\ text[i] = LF => (i > 1 /\ text[i - 1] = CR)
            /\ text[i] = CR => (i < Len(text) /\ text[i + 1] = LF)
    ELSE \A i \in 1..Len(text) : text[i] # CR

\* C1: in every quiescent state the text materialized from the model equals
\* the buffer's content with its line endings normalized to \n.
C1_QuiescentTextsAgree ==
    Quiescent => joinLines(root) = normalized(docText)

\* C2: a documentChanged message that makes setEditorContent call set-text
\* posts no webviewChanged message: the change notification of the replacement
\* is consumed.
C2_ReplacementNotEchoed ==
    (last.op = "documentChanged" /\ last.setData > 0)
        => (last.posted = 0 /\ last.consumed = 1)

C2_Witness ==
    /\ last.op = "documentChanged"
    /\ last.flag
    /\ last.setData = 1
    /\ last.consumed = 1
    /\ dirty

\* C3: a change notification fired for a user edit posts exactly one
\* webviewChanged message, which carries the model's materialized text.
C3_UserEditEmitsOnce ==
    last.op = "userEdit" =>
        /\ last.posted = 1
        /\ toHost # << >>
        /\ toHost[Len(toHost)] = [type |-> "webviewChanged", text |-> joinLines(root)]

\* C4: once a documentChanged message has been handled the suppression flag
\* is false (the synchronizer is Idle).
C4_IdleAfterDocumentChanged ==
    last.op = "documentChanged" => ~suppressNextDataChangeEvent

\* C5: a save that is not the echo of the bridge's own push (flag set and
\* normalized text equal to the snapshot) posts a documentChanged message
\* carrying the buffer's normalized text.
C5_SavePropagates ==
    [][(last'.op = "save"
        /\ ~(isUpdatingFromWebview /\ normalized(docText) = lastWebviewContent))
       => toWebview' = Append(toWebview, [type |-> "documentChanged",
                                           text |-> normalized(docText)])]_vars

\* C6: a save that arrives while the flag is set and the normalized buffer
\* text equals the snapshot posts nothing and clears the flag.
C6_EchoSaveSuppressed ==
    [][(last'.op = "save" /\ isUpdatingFromWebview
        /\ normalized(docText) = lastWebviewContent)
       => (toWebview' = toWebview /\ ~isUpdatingFromWebview')]_vars

C6_Witness ==
    /\ last.op = "save"
    /\ last.flag
    /\ last.posted = 0
    /\ lastWebviewContent # << >>
    /\ normalized(docText) = lastWebviewContent

\* C7: a webviewChanged message with non-empty text whose EOL-converted form
\* differs from the buffer sets the flag, records the snapshot and issues
\* exactly one edit; when an edit succeeds the buffer has the lines of the
\* emitted text, each ended by the buffer's convention.
C7_EmissionWritten ==
    [][/\ (/\ last'.op = "webviewChanged"
           /\ Head(toHost).text # << >>
           /\ replaceEol(Head(toHost).text, eol_chars) # docText)
          => (/\ isUpdatingFromWebview'
              /\ lastWebviewContent' = Head(toHost).text
              /\ Len(pendingEdits') = Len(pendingEdits) + 1
              /\ pendingEdits'[Len(pendingEdits')].rawText = Head(toHost).text
              /\ docText' = docText)
       /\ last'.op = "editApplied"
          => (/\ linesOf(docText') = linesOf(Head(pendingEdits).rawText)
              /\ OnlyConventionEols(docText'))]_vars

C7_Witness ==
    /\ last.op = "editApplied"
    /\ docEol = 2
    /\ docText = <<CR, LF>>
    /\ lastWebviewContent = <<LF>>

\* C8: a webviewChanged message whose text is empty is written like any
\* other: while the buffer is not empty an edit is issued for it.
C8_EmptyEmissionWritten ==
    (last.op = "webviewChanged" /\ lastWebviewContent = << >> /\ docText # << >>)
        => last.edits = 1

\* C9: the in-flight flag never stays set for ever.
C9_FlagEventuallyCleared ==
    isUpdatingFromWebview ~> ~isUpdatingFromWebview

C9_Witness ==
    /\ last.op = "editRejected"
    /\ last.flag
    /\ ~isUpdatingFromWebview

\* C10: after a replacement by a setEditorContent call that is not the first,
\* the selection is the range captured before it if that range exists in the
\* new document, and a cursor after the last top-level element otherwise.
C10_SelectionPreserved ==
    [][(/\ last'.op = "documentChanged"
        /\ initializedFlag
        /\ joinLines(root) # Head(toWebview).text)
       => (/\ root' = splitLines(Head(toWebview).text)
           /\ selection' = IF rangeExists(selection, root')
                           THEN selection
                           ELSE [start |-> <<Len(root')>>, end |-> <<Len(root')>>])]_vars

C10_Witness ==
    /\ last.op = "documentChanged"
    /\ last.flag
    /\ last.setData = 1
    /\ selection = [start |-> <<0, 0>>, end |-> <<0, 1>>]
    /\ root = <<<<"a", "a">>>>

\* C12: a setEditorContent call that is not the first and whose text equals
\* the model's materialized text does not call set-text and leaves the
\* content and the selection as they were.
C12_IdenticalTextIsNoOp ==
    [][(/\ last'.op = "documentChanged"
        /\ initializedFlag
        /\ joinLines(root) = Head(toWebview).text)
       => (/\ last'.setData = 0
           /\ root' = root
           /\ selection' = selection)]_vars

C12_Witness ==
    /\ last.op = "documentChanged"
    /\ last.flag
    /\ last.setData = 0
    /\ root = <<<<"a">>, <<>>>>
    /\ selection = [start |-> <<0, 1>>, end |-> <<1, 0>>]

\* C13: the first setEditorContent call loads the text with set-text whatever
\* the text is, without restoring the selection, and sets initializedFlag;
\* initializedFlag never becomes false again; every later call compares the
\* texts and replaces the content only if they differ.
C13_FirstLoadThenCompare ==
    [][/\ (last'.op = "documentChanged" /\ ~initializedFlag)
          => (/\ last'.setData = 1
              /\ root' = splitLines(Head(toWebview).text)
              /\ selection' = defaultRange
              /\ initializedFlag')
       /\ initializedFlag => initializedFlag'
       /\ (last'.op = "documentChanged" /\ initializedFlag)
          => last'.setData = (IF joinLines(root) = Head(toWebview).text THEN 0 ELSE 1)]_vars

\* The first call was given the text the model already had and loaded it.
C13_Witness ==
    /\ last.op = "documentChanged"
    /\ ~last.flag
    /\ last.setData = 1
    /\ initializedFlag
    /\ root = <<<<"a">>>>
    /\ vscodeState = <<"a">>
    /\ selection = defaultRange

\* C14: the text of an edit issued for an emitted text has line endings only
\* of the buffer's convention (CRLF: no lone \n and no lone \r; LF: no \r) and
\* as many line breaks as the emitted text, a \r\n counting as one; an applied
\* edit writes that text.
C14_EolFidelity ==
    [][/\ (last'.op = "webviewChanged" /\ Len(pendingEdits') > Len(pendingEdits))
          => LET edit == pendingEdits'[Len(pendingEdits')]
             IN  /\ edit.rawText = Head(toHost).text
                 /\ OnlyConventionEols(edit.text)
                 /\ Len(linesOf(edit.text)) = Len(linesOf(edit.rawText))
                 /\ linesOf(edit.text) = linesOf(edit.rawText)
       /\ last'.op = "editApplied" => docText' = Head(pendingEdits).text]_vars

\* \r\n followed by a lone \r, written to a CRLF buffer.
C14_Witness ==
    /\ last.op = "editApplied"
    /\ docEol = 2
    /\ lastWebviewContent = <<CR, LF, CR>>
    /\ docText = <<CR, LF, CR, LF>>

\* C15: a documentChanged message posted by the bridge carries no \r and has
\* the lines of the buffer's text, every line ending of the buffer (\r\n, \r
\* or \n) being one \n.
C15_PostedTextNormalized ==
    [][Len(toWebview') > Len(toWebview)
       => LET m == toWebview'[Len(toWebview')]
          IN  /\ m.type = "documentChanged"
              /\ \A i \in 1..Len(m.text) : m.text[i] # CR
              /\ linesOf(m.text) = linesOf(docText)
              /\ Len(m.text) = Len(docText)
                    - Cardinality({i \in 1..(Len(docText) - 1) :
                                      docText[i] = CR /\ docText[i + 1] = LF})]_vars

\* \r\n followed by a lone \r in the buffer, posted as two \n.
C15_Witness ==
    /\ toWebview = <<[type |-> "documentChanged", text |-> <<LF, LF>>]>>
    /\ docText = <<CR, LF, CR>>

\* ----------------------------------------------------- the table conversion
\* The user has pasted an HTML text and the change notification has posted
\* the converted text.
Pasted == last.op = "userEdit" /\ last.posted = 1 /\ root # << << >> >>
pastedHtml == root[1]
emitted == toHost[Len(toHost)].text

\* The pasted text is one table element and nothing else.
PastedOneTable ==
    /\ Pasted
    /\ Len(pastedHtml) >= 2
    /\ pastedHtml[1] = TableOpen
    /\ pastedHtml[Len(pastedHtml)] = TableClose
    /\ \A i \in 2..(Len(pastedHtml) - 1) :
           pastedHtml[i] \notin {TableOpen, TableOpenUpper, TableClose}

\* Its rows, in document order, whatever section they are in, and the largest
\* number of cells of a row.
pastedRows == allRows(parseTable(SubSeq(pastedHtml, 2, Len(pastedHtml) - 1)))
pastedColumns == maxColumns(pastedRows)

\* The lines of the emitted table, without the empty lines around it.
emittedLines == SelectSeq(linesOf(emitted), LAMBDA line : line # << >>)
\* The emitted lines without the separator line.
emittedRows == [k \in 1..(Len(emittedLines) - 1) |->
                   IF k = 1 THEN emittedLines[1] ELSE emittedLines[k + 1]]

isPrefix(p, t) == Len(p) <= Len(t) /\ SubSeq(t, 1, Len(p)) = p

\* A separator line: '| --- |', '| --- | --- |', ...
isSeparator(line) ==
    \E c \in 1..(MaxCells + 1) : line = markdownRow([i \in 1..c |-> <<"-", "-", "-">>])

\* The Markdown line of a row in a table of c columns.
rowLine(tr, c) ==
    markdownRow([i \in 1..c |-> IF i <= Len(tr) THEN cellText(tr[i]) ELSE << >>])

\* The pipes of a line that no backslash precedes.
barePipes(line) ==
    Cardinality({i \in 1..Len(line) :
                    line[i] = PIPE /\ (i = 1 \/ line[i - 1] # BACKSLASH)})

\* The pipes of a line that Markdown reads as cell boundaries: those preceded
\* by an even number of backslashes (a backslash escapes the character after
\* it, another backslash included).
unescapedPipes(line) ==
    LET backslashesBefore(i) ==
            CHOOSE n \in 0..(i - 1) :
                /\ \A k \in (i - n)..(i - 1) : line[k] = BACKSLASH
                /\ (n = i - 1 \/ line[i - n - 1] # BACKSLASH)
    IN  Cardinality({i \in 1..Len(line) :
                        line[i] = PIPE /\ backslashesBefore(i) % 2 = 0})

\* C16: every row of the table is emitted once and in document order, the
\* rows of a thead included when there is a tbody as well: the k-th emitted
\* row starts with the cells of the k-th row, and the line after the first
\* emitted row is the separator.
C16_EveryRowOnceInOrder ==
    (PastedOneTable /\ Len(pastedRows) >= 1 /\ pastedColumns >= 1)
        => (/\ Len(emittedRows) = Len(pastedRows)
            /\ \A k \in 1..Len(pastedRows) :
                   isPrefix(rowLine(pastedRows[k], Len(pastedRows[k])) , emittedRows[k])
                       \/ Len(pastedRows[k]) = 0
            /\ isSeparator(emittedLines[2]))

\* C17: with c the largest number of cells of a row of the table, every
\* emitted line has exactly c cells, a row of fewer cells being filled up with
\* empty cells, and no row is dropped.
C17_RowsPaddedToColumnCount ==
    (PastedOneTable /\ Len(pastedRows) >= 1 /\ pastedColumns >= 1)
        => (/\ \A k \in 1..Len(emittedLines) : barePipes(emittedLines[k]) = pastedColumns + 1
            /\ Len(emittedRows) = Len(pastedRows)
            /\ \A k \in 1..Len(pastedRows) :
                   emittedRows[k] = rowLine(pastedRows[k], pastedColumns))

\* C18: a table of r >= 1 rows and c >= 1 columns is emitted as r + 1 lines,
\* each of the form '| x | ... |': the first row, the separator of c '---'
\* cells, then the other rows; no other line is a separator.
C18_LinesAndSeparator ==
    (PastedOneTable /\ Len(pastedRows) >= 1 /\ pastedColumns >= 1)
        => (/\ Len(emittedLines) = Len(pastedRows) + 1
            /\ emittedLines[2] = markdownRow([i \in 1..pastedColumns |-> <<"-", "-", "-">>])
            /\ \A k \in 1..Len(emittedLines) :
                   /\ isPrefix(<<PIPE, SP>>, emittedLines[k])
                   /\ emittedLines[k][Len(emittedLines[k])] = PIPE
                   /\ k # 2 => ~isSeparator(emittedLines[k])
            /\ emitted = <<LF>> \o join(emittedLines, <<LF>>) \o <<LF>>)

\* The text of a cell trimmed, its runs of whitespace collapsed, its pipes
\* escaped.
escapedText(textContent) == escapePipes(collapseWhitespace(trim(textContent)))

\* C19: in a table emitted as one row and the separator, an emitted cell is the
\* cell's text trimmed, its runs of whitespace collapsed and its pipes escaped,
\* so that the row of c cells has exactly c + 1 unescaped pipes whatever the
\* cells hold.
C19_CellsEscaped ==
    (PastedOneTable /\ Len(pastedRows) = 1 /\ pastedColumns >= 1 /\ Len(emittedLines) = 2)
        => (/\ emittedLines[1] =
                   markdownRow([i \in 1..pastedColumns |-> escapedText(pastedRows[1][i])])
            /\ unescapedPipes(emittedLines[1]) = pastedColumns + 1)

\* C20: the emitted text is the pasted text with every table element (opening
\* tag in lower or upper case up to its closing tag) replaced by that table's
\* Markdown and everything else as it was; a text without a table element is
\* emitted unchanged.
C20_OnlyTablesReplaced ==
    Pasted =>
        /\ emitted = replaceTables(pastedHtml)
        /\ (\A i \in 1..Len(pastedHtml) : pastedHtml[i] # TableClose) => emitted = pastedHtml

\* C21: the table conversion is idempotent: converting the emitted text again
\* gives the emitted text, the first conversion having left no table element
\* for the second to rewrite.
C21_ConversionIdempotent == Pasted => htmlTableToMarkdown(emitted) = emitted

\* C22: a table element without a row, or whose rows are all without a cell,
\* is emitted as the empty text: no line, no separator, no newline.
C22_EmptyTableRemoved ==
    (PastedOneTable /\ \A k \in 1..Len(pastedRows) : Len(pastedRows[k]) = 0)
        => emitted = << >>

\* A table of two rows without a cell was pasted and nothing was emitted for it.
C22_Witness ==
    /\ PastedOneTable
    /\ Len(pastedRows) = 2
    /\ \A k \in 1..Len(pastedRows) : Len(pastedRows[k]) = 0
    /\ emitted = << >>

\* C29: while an edit issued for a webviewChanged message is pending, the
\* in-flight flag is set: no timer of an earlier edit and no save clears it.
C29_FlagSetWhilePending == pendingEdits # << >> => isUpdatingFromWebview

\* C30: no documentChanged message is posted while an edit issued for a
\* received webviewChanged message is pending on the buffer it was made for:
\* the message would carry the text the buffer had before that emission.
C30_NoStalePush ==
    [][Len(toWebview') > Len(toWebview)
           => \A i \in 1..Len(pendingEdits) : pendingEdits[i].stale]_vars

\* No text editor, active or visible, shows a markdown document.
NoMarkdownEditor ==
    /\ ~(activeTextEditor # Undefined /\ isMarkdownEditor(activeTextEditor))
    /\ \A i \in 1..Len(visibleTextEditors) : ~isMarkdownEditor(visibleTextEditors[i])

\* No argument of the command is or holds a uri.
NoUriArgument ==
    /\ last.uri = UndefinedUri
    /\ \A i \in 1..Len(last.args) : last.args[i].uri = UndefinedUri

\* C28: openWysiwygEditor run without a uri while no text editor shows a
\* markdown document, and openDefaultEditor run without a uri while
\* extensionState.activeDocument is undefined, show a message, execute no
\* openWith command and leave extensionState as it was.
C28_NothingToOpen ==
    [][((\/ last'.op = "openWysiwygEditor" /\ NoMarkdownEditor
         \/ last'.op = "openDefaultEditor" /\ extensionState.activeDocument = Undefined)
        /\ NoUriArgument')
       => (/\ Len(last'.shown) = 1
           /\ last'.executed = << >>
           /\ extensionState' = extensionState)]_vars

\* openWysiwygEditor was run without a uri while the active editor showed a
\* text file and after a custom editor had been focused: the warning.
C28_Witness ==
    /\ last.op = "openWysiwygEditor"
    /\ NoUriArgument
    /\ activeTextEditor = [languageId |-> "plaintext", fileName |-> <<"d", ".txt">>]
    /\ extensionState.activeDocument # Undefined
    /\ last.shown = <<[level |-> "warning",
                       message |-> "No markdown file found. Please open a .md file first."]>>
    /\ last.executed = << >>

\* The region the cursor is in: the code block that is the parent of the
\* cursor's position, its place among its siblings, the paths of the siblings.
cursor == selection.start
InRegion == elementAt(root, parentOf(cursor)).name = "codeBlock"
region == parentOf(cursor)
regionSiblings == childrenOf(root, parentOf(region))
HasNextSibling == offsetOf(region) + 1 < Len(regionSiblings)
HasPreviousSibling == offsetOf(region) > 0
nextSibling == createPositionAfter(region)
previousSibling ==
    [i \in 1..Len(region) |-> IF i = Len(region) THEN region[i] - 1 ELSE region[i]]
AtEndOfRegion == offsetOf(cursor) = maxOffset(elementAt(root, region))
AtStartOfRegion == offsetOf(cursor) = 0

\* At most tolerance items are left after the cursor, or nothing but
\* whitespace and line breaks.
NearEndOfRegion(tolerance) ==
    \/ maxOffset(elementAt(root, region)) - offsetOf(cursor) <= tolerance
    \/ trim(textAfter(elementAt(root, region), offsetOf(cursor))) = << >>

\* The step put the cursor at the start of the next sibling, at the end of the
\* previous one, inserting nothing.
MovedToNextSibling == root' = root /\ selection' = collapsed(nextSibling \o <<0>>)
MovedToPreviousSibling ==
    /\ root' = root
    /\ selection' = collapsed(previousSibling
                                  \o <<maxOffset(elementAt(root, previousSibling))>>)

\* The step inserted one empty paragraph right after the region, right before
\* it, and nothing else, and put the cursor in the paragraph.
ParagraphInsertedAfter ==
    /\ root' = insert(root, paragraph(<< >>), nextSibling)
    /\ selection' = collapsed(nextSibling \o <<0>>)
ParagraphInsertedBefore ==
    /\ root' = insert(root, paragraph(<< >>), region)
    /\ selection' = collapsed(region \o <<0>>)

\* C23: ArrowDown with the cursor in a region, at or near its end, the region
\* having a next sibling: the cursor is put at offset 0 of that sibling, the
\* key is consumed and nothing is inserted, at the top level and in a block
\* quote alike.
C23_ArrowDownToNextSibling ==
    [][(last'.op = "ArrowDown" /\ InRegion /\ NearEndOfRegion(3) /\ HasNextSibling)
       => (MovedToNextSibling /\ last'.cancelled)]_vars

\* C24: ArrowDown with the cursor at the end of a region that has no next
\* sibling: one empty paragraph is inserted right after the region, the cursor
\* is put at its offset 0 and the key is consumed.
C24_ArrowDownInsertsParagraph ==
    [][(last'.op = "ArrowDown" /\ InRegion /\ AtEndOfRegion /\ ~HasNextSibling)
       => (ParagraphInsertedAfter /\ last'.cancelled)]_vars

\* The last block of a block quote was left with ArrowDown: the paragraph is
\* in the block quote, before the paragraph that follows the quote.
C24_Witness ==
    /\ last.op = "ArrowDown"
    /\ last.cancelled
    /\ last.posted = 1
    /\ root = <<blockQuote(<<codeBlock(<<"a", SoftBreak, "a">>), paragraph(<< >>)>>),
                paragraph(<<"a">>)>>
    /\ selection = collapsed(<<0, 1, 0>>)

\* C25: ArrowUp with the cursor at the very start of a region: the cursor is
\* put at the end of the previous sibling and nothing is inserted, or, the
\* region having none, one empty paragraph is inserted right before the
\* region and the cursor put in it; the key is consumed.
C25_ArrowUpLeavesRegion ==
    [][(last'.op = "ArrowUp" /\ InRegion /\ AtStartOfRegion)
       => (/\ last'.cancelled
           /\ IF HasPreviousSibling THEN MovedToPreviousSibling
              ELSE ParagraphInsertedBefore)]_vars

\* C26: Enter with the cursor in a region, at or near its end: one empty
\* paragraph is inserted right after the region, whether it has a next
\* sibling or not, the cursor is put at its offset 0, the region is as it
\* was and the key is consumed.
C26_EnterInsertsParagraph ==
    [][(last'.op = "Enter" /\ InRegion /\ NearEndOfRegion(5))
       => (ParagraphInsertedAfter /\ last'.cancelled)]_vars

\* C27: Esc with the cursor anywhere in a region: the key is consumed and the
\* cursor is put at the start of the next sibling, else at the end of the
\* previous one, else in a new paragraph inserted right after the region.
C27_EscLeavesRegion ==
    [][(last'.op = "Esc" /\ InRegion)
       => (/\ last'.cancelled
           /\ IF HasNextSibling THEN MovedToNextSibling
              ELSE IF HasPreviousSibling THEN MovedToPreviousSibling
              ELSE ParagraphInsertedAfter)]_vars

\* C31: the script run in a webview created again, restoring a persisted text
\* that holds something, posts no webviewChanged message: the initialized
\* message is all it puts on the channel.
C31_RestorePostsNothing ==
    [][(last'.op = "scriptStart" /\ vscodeState # NoText /\ vscodeState # << >>)
           => \A i \in 1..Len(toHost') : toHost'[i].type # "webviewChanged"]_vars

\* The initialized message of the session has not been received yet.
InitializedInTransit == \E i \in 1..Len(toHost) : toHost[i].type = "initialized"

\* C32: while the initialized message of the session is on its way no
\* documentChanged message is posted, save or no save; the step that receives
\* it posts the first one, with the buffer's normalized text.
C32_NoPushBeforeInitialized ==
    [][InitializedInTransit
           => IF last'.op = "initialized"
              THEN toWebview' = Append(toWebview, [type |-> "documentChanged",
                                                   text |-> normalized(docText)])
              ELSE toWebview' = toWebview]_vars

\* What is left between the cursor and the end of the region.
remaining == maxOffset(elementAt(root, region)) - offsetOf(cursor)
remainingText == textAfter(elementAt(root, region), offsetOf(cursor))

\* The exit condition of ArrowDown as stated: at or past the end, or no
\* newline after the cursor and at most 3 positions or only whitespace left.
ArrowDownExits ==
    \/ remaining <= 0
    \/ /\ \A i \in 1..Len(remainingText) : remainingText[i] # LF
       /\ (remaining <= 3 \/ trim(remainingText) = << >>)

\* The step left structure and selection alone and did not consume the key.
KeyIgnored == root' = root /\ selection' = selection /\ ~last'.cancelled

\* The step consumed the key and put the cursor outside the region.
RegionLeft == last'.cancelled /\ selection' # selection

\* C33: ArrowDown with the cursor in a region leaves the region exactly when
\* the exit condition holds; in every other position the key is ignored.
C33_ArrowDownExitsIffAtEnd ==
    [][(last'.op = "ArrowDown" /\ InRegion)
           => IF ArrowDownExits THEN RegionLeft ELSE KeyIgnored]_vars

\* C34: a key pressed with the cursor in no region (in a paragraph, at the
\* top level or in a block quote), ArrowUp pressed in a region anywhere but at
\* its very start, Enter pressed more than 5 positions before the end of a
\* region: root and selection are as they were, the key is not consumed and
\* nothing is posted.
C34_KeyElsewhereIgnored ==
    [][(\/ last'.op \in {"ArrowDown", "ArrowUp", "Enter", "Esc"} /\ ~InRegion
        \/ last'.op = "ArrowUp" /\ InRegion /\ ~AtStartOfRegion
        \/ last'.op = "Enter" /\ InRegion /\ remaining > 5)
           => (KeyIgnored /\ last'.posted = 0)]_vars

\* Enter was pressed after the first of the 7 letters of a code block and was
\* not consumed.
C34_Witness ==
    /\ last.op = "Enter"
    /\ ~last.cancelled
    /\ InRegion
    /\ offsetOf(cursor) = 1
    /\ remaining = 6

\* C35: Enter and ArrowDown leave a region from the same cursor positions.
\* With the cursor after the start of a region and before its end, and no
\* line feed after it, Enter is consumed exactly when ArrowDown pressed in its
\* place would be, and ArrowDown exactly when Enter would be.
C35_EnterAndArrowDownAgree ==
    [][(/\ InRegion
        /\ offsetOf(cursor) > 0
        /\ remaining > 0
        /\ \A i \in 1..Len(remainingText) : remainingText[i] # LF)
           => (/\ last'.op = "Enter"
                    => (last'.cancelled <=> onArrowDown(webview).cancelled)
               /\ last'.op = "ArrowDown"
                    => (last'.cancelled <=> onEnter(webview).cancelled))]_vars

\* C36: a webviewChanged message whose text, converted to the buffer's line
\* ending, is the buffer's text: the handler issues no edit, leaves the buffer
\* as it is, starts no timer and returns with the in-flight flag false.
C36_IdenticalTextNoEdit ==
    [][(last'.op = "webviewChanged" /\ replaceEol(Head(toHost).text, eol_chars) = docText)
           => (/\ pendingEdits' = pendingEdits
               /\ docText' = docText
               /\ clearTimers' = clearTimers
               /\ ~isUpdatingFromWebview')]_vars

\* The buffer holds 'a\r\n' with CRLF as its line ending and the webview sent
\* 'a\n': the texts are the same only after the conversion.
C36_Witness ==
    /\ last.op = "webviewChanged"
    /\ last.edits = 0
    /\ docEol = 2
    /\ docText = <<"a", CR, LF>>
    /\ lastWebviewContent = <<"a", LF>>
    /\ pendingEdits = << >>
    /\ clearTimers = 0
    /\ ~isUpdatingFromWebview

\* C37: a step that changes the buffer's text (a change from outside, an edit
\* applied) posts no message and leaves the in-flight flag and the snapshot as
\* they were; a documentChanged message is posted only by the save handler
\* and by the handler of initialized.
C37_ChangeNotificationDoesNothing ==
    [][/\ docText' # docText
           => (/\ toWebview' = toWebview
               /\ isUpdatingFromWebview' = isUpdatingFromWebview
               /\ lastWebviewContent' = lastWebviewContent)
       /\ Len(toWebview') > Len(toWebview) => last'.op \in {"save", "initialized"}]_vars

\* The buffer was changed from outside while the in-flight flag was set for a
\* snapshot: flag and snapshot are as they were and nothing was posted.
C37_Witness ==
    /\ last.op = "externalChange"
    /\ last.flag
    /\ isUpdatingFromWebview
    /\ lastWebviewContent # << >>
    /\ docText # lastWebviewContent
    /\ toWebview = << >>

\* C38: a webviewChanged message of one session leaves the flag and the
\* snapshot of the other session as they were; and the save that follows the
\* application of one session's emitted text posts to the other session,
\* unless its own last emission was this very text, a documentChanged message
\* with the buffer's text, which is that text.
C38_SessionsIndependent ==
    [][/\ last'.op = "webviewChanged"
           => \A s \in Sessions \ {last'.session} :
                  /\ sessions'[s].isUpdatingFromWebview = sessions[s].isUpdatingFromWebview
                  /\ sessions'[s].lastWebviewContent = sessions[s].lastWebviewContent
       /\ (last.op = "editApplied" /\ last'.op = "save")
           => \A s \in Sessions \ {last.session} :
                  sessions[s].lastWebviewContent # last.text
                      => last'.posted[s] = <<[type |-> "documentChanged",
                                              text |-> normalized(last.text)]>>]_vars

\* C39: openDefaultEditor run without a uri right after the dispose handler
\* of the active panel reports that there is no active WYSIWYG editor and
\* opens nothing.
C39_DisposedPanelNotOpened ==
    [][(/\ last.op = "panelDisposed"
        /\ last'.op = "openDefaultEditor"
        /\ last'.uri = UndefinedUri)
           => (/\ last'.shown = <<[level |-> "error",
                                   message |-> "No active WYSIWYG editor."]>>
               /\ last'.executed = << >>)]_vars

====
